---- MODULE Spec2Model ----
(***************************************************************************)
(* Model of the doc-mcp indexing pipeline: the recursive parent/child text *)
(* splitter (src/src/services/chunking.service.ts, the ChunkingService of  *)
(* lines 563-933), the strategy configuration (src/unnamed/part_009) and   *)
(* the batched embedding call (src/src/services/embedding.service.ts).     *)
(*                                                                         *)
(* A text is a sequence of one-character strings; positions are 0-based    *)
(* and spans half-open, as in the TypeScript source.                       *)
(***************************************************************************)
EXTENDS Integers, Sequences, FiniteSets, TLC

VARIABLES
    content,        \* chunkWithStrategy: the document text passed in
    strategy,       \* chunkWithStrategy: the strategy passed in
    parentChunks,   \* chunkWithStrategy: the ParentChunkResult[] returned
    chunkPc,        \* "ready" before the call, "chunked" after it returned
    splitText,      \* characterLevelSplit: text
    splitSize,      \* characterLevelSplit: chunkSize
    splitOverlap,   \* characterLevelSplit: overlap
    splitLoop,      \* characterLevelSplit: the locals [start, chunks]
    splitResult,    \* characterLevelSplit: the array returned
    splitPc,        \* "enter", "loop", "done" ("idle": not called)
    env,            \* process.env.CHUNK_STRATEGIES
    strategies,     \* ChunkingService.strategies
    allResults,     \* chunkWithAllStrategies: the StrategyChunkResult[] returned
    configPc,       \* "start", "constructed", "chunked" ("idle": unused)
    texts,          \* generateEmbeddings: the texts passed in
    validTexts,     \* generateEmbeddings: the {index, text} of non-blank texts
    results,        \* generateEmbeddings: the results array
    batchStart,     \* generateEmbeddings: the loop variable i
    calls,          \* history: the input of every request sent to the endpoint
    responses,      \* history: the data of every response received
    embedPc,        \* "start", "loop", "await", "returned", "failed" ("idle")
    chunkStrategyTable, \* the rows of the chunk_strategies table
    ensureCalls,    \* ensureStrategy: the calls in progress, one per request
    uploadRequest,  \* uploadDocument: the request passed in
    uploadLocals,   \* uploadDocument: its local variables
    database,       \* the documents, parent_chunks, child_chunks and
                    \* chunk_embeddings tables
    uploadLog,      \* history: every remote call and database write of the
                    \* request, with its outcome
    uploadPc,       \* uploadDocument: the await it is suspended at ("idle")
    searchRequest,  \* searchDocuments: the request passed in
    queryLocals,    \* searchDocuments / QueryService: searchQuery,
                    \* queryStrategy and the analysis
    chatLog,        \* history: the chat calls of the query transformer
    queryPc,        \* position in the query transformation ("idle")
    retrieveRequest, \* searchDocuments: query, top_k and use_rerank
    storedRows,     \* the rows the store holds that pass the threshold,
                    \* by ascending distance
    retrieveLocals, \* searchDocuments: retrieveCount, results and what
                    \* rerankResults was called with
    retrievePc,     \* position in retrieval and re-ranking ("idle")
    requestsServed, \* the number of upload requests received so far
    deletedDocuments, \* history: the ids deleteDocument succeeded for
    summaryContents, \* generateSummaries: the contents passed in
    summaryRequests, \* generateSummaries: the generateSummary call of each
                    \* content and its outcome
    summaryCall     \* generateSummaries: the loop variable i, results, and
                    \* how the call ended

chunkVars == <<content, strategy, parentChunks, chunkPc>>
splitVars ==
    <<splitText, splitSize, splitOverlap, splitLoop, splitResult, splitPc>>
configVars == <<env, strategies, allResults, configPc>>

embedVars ==
    <<texts, validTexts, results, batchStart, calls, responses, embedPc>>

ensureVars == <<chunkStrategyTable, ensureCalls>>
storeVars == <<requestsServed, deletedDocuments>>
uploadVars ==
    <<uploadRequest, uploadLocals, database, uploadLog, uploadPc, storeVars>>
queryVars == <<searchRequest, queryLocals, chatLog, queryPc>>
retrieveVars == <<retrieveRequest, storedRows, retrieveLocals, retrievePc>>
summaryVars == <<summaryContents, summaryRequests, summaryCall>>

serviceVars ==
    <<ensureVars, uploadVars, queryVars, retrieveVars, summaryVars>>

vars == <<chunkVars, splitVars, configVars, embedVars, serviceVars>>

\* What the actions of one service leave alone.
pipelineVars == <<chunkVars, splitVars, configVars, embedVars>>
outsideEnsure ==
    <<pipelineVars, uploadVars, queryVars, retrieveVars, summaryVars>>
outsideUpload ==
    <<pipelineVars, ensureCalls, queryVars, retrieveVars, storeVars,
      summaryVars>>
outsideQuery ==
    <<pipelineVars, ensureVars, uploadVars, retrieveVars, summaryVars>>
outsideRetrieve ==
    <<pipelineVars, ensureVars, uploadVars, queryVars, summaryVars>>
outsideSummaries ==
    <<pipelineVars, ensureVars, uploadVars, queryVars, retrieveVars>>

----------------------------------------------------------------------------
(* Bounds of the model.                                                    *)

\* Longest document text that is enumerated.
MaxLen == 6

\* The characters documents are made of: a letter and the two characters
\* that make up the first, second and last non-empty RECURSIVE_SEPARATORS.
Alphabet == {"a", "\n", " "}

\* Strategy fields that are enumerated.  The percentages are multiples of 25,
\* for which size * (percent / 100) is exact in IEEE doubles, so Math.floor
\* of it is the integer quotient used below.
ParentSizes == {2, 3, 4}
ChildSizes == {1, 2, 3}
OverlapPercents == {0, 50, 75, 100, 150}

Texts == UNION {[1..n -> Alphabet] : n \in 0..MaxLen}

StrategySet ==
    [parentChunkSize : ParentSizes, childChunkSize : ChildSizes,
     overlapPercent : OverlapPercents]

\* Longest document text handed to a service built from the configuration,
\* and the longest strategy list such a service holds.
MaxConfigLen == 3
MaxStrategies == 1

ConfigTexts == UNION {[1..n -> Alphabet] : n \in 0..MaxConfigLen}

\* Longest list of texts handed to generateEmbeddings, and the texts it is
\* made of: empty, whitespace only, plain, and padded with whitespace.
MaxTexts == 4
EmbedTexts == {<<>>, <<" ">>, <<"x">>, <<"y">>, <<" ", "x", "y", "\n">>}

\* DEFAULT_EMBEDDING_BATCH_SIZE is 100 in the program; the model runs the
\* same batching loop with a batch size small enough to need several calls.
DEFAULT_EMBEDDING_BATCH_SIZE == 2

----------------------------------------------------------------------------
(* JavaScript string primitives used by the splitter.                      *)

Min(S) == CHOOSE x \in S : \A y \in S : x <= y
Max(S) == CHOOSE x \in S : \A y \in S : x >= y

\* String.prototype.slice(from, to) with 0 <= from and 0 <= to.
slice(text, from, to) ==
    SubSeq(text, Min({from, Len(text)}) + 1, Min({to, Len(text)}))

\* text.slice(-n) for n > 0: the last n characters (all of text if shorter).
sliceFromEnd(text, n) ==
    SubSeq(text, Max({Len(text) - n, 0}) + 1, Len(text))

occursAt(text, key, p) ==
    /\ p + Len(key) <= Len(text)
    /\ SubSeq(text, p + 1, p + Len(key)) = key

\* String.prototype.indexOf(key, from): first position >= from, or -1.
indexOf(text, key, from) ==
    LET lo == Min({Max({from, 0}), Len(text)})
        hits == {p \in lo..(Len(text) - Len(key)) : occursAt(text, key, p)}
    IN  IF hits = {} THEN -1 ELSE Min(hits)

\* String.prototype.split(separator) for a non-empty separator.
RECURSIVE split(_, _)
split(text, separator) ==
    LET p == indexOf(text, separator, 0)
    IN  IF p = -1
        THEN <<text>>
        ELSE <<slice(text, 0, p)>>
             \o split(slice(text, p + Len(separator), Len(text)), separator)

----------------------------------------------------------------------------
(* Constants of the program.                                               *)

\* RECURSIVE_SEPARATORS, in priority order; the last one is the empty string.
RECURSIVE_SEPARATORS ==
    << <<"\n", "\n">>, <<"\n">>, <<"CJK.">>, <<"CJK!">>, <<"CJK?">>,
       <<".">>, <<"!">>, <<"?">>, <<";">>, <<"CJK;">>, <<",">>, <<"CJK,">>,
       <<" ">>, <<>> >>

\* The characters that occur in some separator.
SeparatorChars ==
    UNION {{RECURSIVE_SEPARATORS[k][j] : j \in 1..Len(RECURSIVE_SEPARATORS[k])} :
              k \in 1..Len(RECURSIVE_SEPARATORS)}

\* Length of the search key cut at the midpoint of a chunk that was not found.
SEARCH_KEY_LENGTH == 50

----------------------------------------------------------------------------
(* ChunkingService: the character-level fallback.                          *)

\* Faulty variant of stepIsInvalid: a step of zero passes the guard.
stepIsInvalidOnlyIfNegative(step) == step < 0

\* The guard on the step of characterLevelSplit.
stepIsInvalid(step) == step <= 0

\* One iteration of the while loop of characterLevelSplit on the loop state
\* st = [start, chunks].
characterLevelSplitBody(text, chunkSize, step, st) ==
    LET end == Min({st.start + chunkSize, Len(text)})
        advanced == st.start + step
    IN  [chunks |-> Append(st.chunks, slice(text, st.start, end)),
         start |-> IF advanced >= end /\ advanced < Len(text)
                   THEN end ELSE advanced]

RECURSIVE characterLevelSplitLoop(_, _, _, _)
characterLevelSplitLoop(text, chunkSize, step, st) ==
    IF st.start < Len(text)
    THEN characterLevelSplitLoop(text, chunkSize, step,
             characterLevelSplitBody(text, chunkSize, step, st))
    ELSE st.chunks

characterLevelSplit(text, chunkSize, overlap) ==
    LET step == chunkSize - overlap
    IN  IF stepIsInvalid(step)
        THEN <<text>>
        ELSE characterLevelSplitLoop(text, chunkSize, step,
                 [start |-> 0, chunks |-> <<>>])

----------------------------------------------------------------------------
(* ChunkingService: overlap injection.                                     *)

getOverlapFromEnd(text, overlap, separator) ==
    IF Len(text) <= overlap
    THEN text
    ELSE LET rawOverlap == sliceFromEnd(text, overlap)
             separatorIndex == indexOf(rawOverlap, separator, 0)
         IN  IF separatorIndex # -1 /\ separatorIndex < Len(rawOverlap) - 1
             THEN slice(rawOverlap, separatorIndex + Len(separator),
                        Len(rawOverlap))
             ELSE rawOverlap

addOverlapToChunks(chunks, overlap, separator) ==
    [i \in 1..Len(chunks) |->
        IF i = 1
        THEN chunks[i]
        ELSE LET overlapContent ==
                     getOverlapFromEnd(chunks[i - 1], overlap, separator)
             IN  IF overlapContent # <<>>
                 THEN overlapContent \o separator \o chunks[i]
                 ELSE chunks[i]]

----------------------------------------------------------------------------
(* ChunkingService: splitting by the separator list.                       *)

\* Faulty variant of flushLast: the last accumulated chunk is never saved.
flushLastDropped(baseChunks, currentChunk) == baseChunks

\* "if (currentChunk) baseChunks.push(currentChunk)" after the merge loop.
flushLast(baseChunks, currentChunk) ==
    IF currentChunk # <<>> THEN Append(baseChunks, currentChunk)
    ELSE baseChunks

RECURSIVE splitBySeparators(_, _, _, _)
RECURSIVE mergeSplits(_, _, _, _, _, _, _)

\* The for loop of splitBySeparators over splits[i..], with the loop state
\* (baseChunks, currentChunk); i is 1-based here.
mergeSplits(splits, i, baseChunks, currentChunk, chunkSize, overlap, separatorIndex) ==
    IF i > Len(splits)
    THEN flushLast(baseChunks, currentChunk)
    ELSE LET separator == RECURSIVE_SEPARATORS[separatorIndex + 1]
             piece == splits[i]
             potentialChunk == IF currentChunk # <<>>
                               THEN currentChunk \o separator \o piece
                               ELSE piece
             saved == IF currentChunk # <<>>
                      THEN Append(baseChunks, currentChunk)
                      ELSE baseChunks
         IN  IF Len(potentialChunk) <= chunkSize
             THEN mergeSplits(splits, i + 1, baseChunks, potentialChunk,
                              chunkSize, overlap, separatorIndex)
             ELSE IF Len(piece) > chunkSize
                  THEN mergeSplits(splits, i + 1,
                           saved \o splitBySeparators(piece, chunkSize,
                                        overlap, separatorIndex + 1),
                           <<>>, chunkSize, overlap, separatorIndex)
                  ELSE mergeSplits(splits, i + 1, saved, piece,
                                   chunkSize, overlap, separatorIndex)

splitBySeparators(text, chunkSize, overlap, separatorIndex) ==
    IF separatorIndex >= Len(RECURSIVE_SEPARATORS)
    THEN characterLevelSplit(text, chunkSize, overlap)
    ELSE LET separator == RECURSIVE_SEPARATORS[separatorIndex + 1]
         IN  IF separator = <<>>
             THEN characterLevelSplit(text, chunkSize, overlap)
             ELSE LET splits == split(text, separator)
                  IN  IF Len(splits) = 1
                      THEN splitBySeparators(text, chunkSize, overlap,
                                             separatorIndex + 1)
                      ELSE LET baseChunks ==
                                   mergeSplits(splits, 1, <<>>, <<>>,
                                       chunkSize, overlap, separatorIndex)
                           IN  IF Len(baseChunks) <= 1 \/ overlap <= 0
                               THEN baseChunks
                               ELSE addOverlapToChunks(baseChunks, overlap,
                                                       separator)

----------------------------------------------------------------------------
(* ChunkingService: spans with positions.                                  *)

\* Faulty variant of fitsInOneChunk: a text of exactly chunkSize characters is split.
fitsInOneChunkStrict(text, chunkSize) == Len(text) < chunkSize

\* The early return of recursiveCharacterSplit.
fitsInOneChunk(text, chunkSize) == Len(text) <= chunkSize

\* Faulty variant of chunkStartInText: the text is not searched and the start
\* is estimated from the previous chunk.
chunkStartInTextEstimated(text, chunk, i, result, basePosition) ==
    IF i > 1 /\ Len(result) > 0
    THEN Max({0, result[Len(result)].startPosition - basePosition + 1})
    ELSE 0

\* The body of the for loop of recursiveCharacterSplit for chunks[i]
\* (i is 1-based here): the start of the chunk in text.
chunkStartInText(text, chunk, i, result, basePosition) ==
    LET searchStart ==
            IF i > 1 /\ Len(result) > 0
            THEN Max({0, result[Len(result)].startPosition - basePosition + 1})
            ELSE 0
        direct == indexOf(text, chunk, searchStart)
        midPoint == Len(chunk) \div 2
        searchKey == slice(chunk, midPoint, midPoint + SEARCH_KEY_LENGTH)
        keyPos == indexOf(text, searchKey, searchStart)
    IN  IF direct = -1 /\ i > 1
        THEN IF keyPos # -1 THEN Max({0, keyPos - midPoint}) ELSE searchStart
        ELSE IF direct = -1 THEN searchStart ELSE direct

RECURSIVE locateChunks(_, _, _, _, _)
locateChunks(text, chunks, i, result, basePosition) ==
    IF i > Len(chunks)
    THEN result
    ELSE LET startPosition ==
                 basePosition
                 + chunkStartInText(text, chunks[i], i, result, basePosition)
         IN  locateChunks(text, chunks, i + 1,
                 Append(result, [content |-> chunks[i],
                                 startPosition |-> startPosition,
                                 endPosition |-> startPosition + Len(chunks[i])]),
                 basePosition)

recursiveCharacterSplit(text, chunkSize, overlap, basePosition) ==
    IF fitsInOneChunk(text, chunkSize)
    THEN << [content |-> text, startPosition |-> basePosition,
             endPosition |-> basePosition + Len(text)] >>
    ELSE locateChunks(text, splitBySeparators(text, chunkSize, overlap, 0),
                      1, <<>>, basePosition)

\* Math.floor(size * (overlapPercent / 100)).
overlapChars(size, overlapPercent) == (size * overlapPercent) \div 100

\* Faulty variant of childBasePosition: children are located relative to the parent.
childBasePositionZero(parent) == 0

\* The base position handed to the child pass of a parent.
childBasePosition(parent) == parent.startPosition

chunkWithStrategy(text, strat) ==
    IF text = <<>>
    THEN <<>>
    ELSE LET parentOverlap ==
                 overlapChars(strat.parentChunkSize, strat.overlapPercent)
             childOverlap ==
                 overlapChars(strat.childChunkSize, strat.overlapPercent)
             parents == recursiveCharacterSplit(text, strat.parentChunkSize,
                                                parentOverlap, 0)
         IN  [p \in 1..Len(parents) |->
                LET children ==
                        recursiveCharacterSplit(parents[p].content,
                            strat.childChunkSize, childOverlap,
                            childBasePosition(parents[p]))
                IN  [content |-> parents[p].content,
                     parentIndex |-> p - 1,
                     startPosition |-> parents[p].startPosition,
                     endPosition |-> parents[p].endPosition,
                     children |->
                        [c \in 1..Len(children) |->
                            [content |-> children[c].content,
                             chunkIndex |-> c - 1,
                             startPosition |-> children[c].startPosition,
                             endPosition |-> children[c].endPosition]]]]

\* DEFAULT_CHUNK_STRATEGIES.
DEFAULT_CHUNK_STRATEGIES ==
    << [parentChunkSize |-> 2000, childChunkSize |-> 800,
        overlapPercent |-> 25] >>

----------------------------------------------------------------------------
(* The splitter applied to one document: the caller holds a document text  *)
(* and calls chunkWithStrategy on it with some strategy.                   *)

\* The parts of the state a specification does not exercise.
IdleChunk ==
    /\ content = <<>>
    /\ strategy = DEFAULT_CHUNK_STRATEGIES[1]
    /\ parentChunks = <<>>
    /\ chunkPc = "idle"

IdleSplit ==
    /\ splitText = <<>>
    /\ splitSize = 0
    /\ splitOverlap = 0
    /\ splitLoop = [start |-> 0, chunks |-> <<>>]
    /\ splitResult = <<>>
    /\ splitPc = "idle"

IdleConfig ==
    /\ env = [kind |-> "unset", value |-> <<>>]
    /\ strategies = <<>>
    /\ allResults = <<>>
    /\ configPc = "idle"

IdleEmbed ==
    /\ texts = <<>>
    /\ validTexts = <<>>
    /\ results = <<>>
    /\ batchStart = 0
    /\ calls = <<>>
    /\ responses = <<>>
    /\ embedPc = "idle"

IdleEnsure ==
    /\ chunkStrategyTable = <<>>
    /\ ensureCalls = <<>>

IdleUpload ==
    /\ uploadRequest = [content |-> <<>>, title |-> <<>>]
    /\ uploadLocals = <<>>
    /\ database = <<>>
    /\ uploadLog = <<>>
    /\ uploadPc = "idle"
    /\ requestsServed = 0
    /\ deletedDocuments = {}

IdleQuery ==
    /\ searchRequest = <<>>
    /\ queryLocals = <<>>
    /\ chatLog = <<>>
    /\ queryPc = "idle"

IdleRetrieve ==
    /\ retrieveRequest = <<>>
    /\ storedRows = <<>>
    /\ retrieveLocals = <<>>
    /\ retrievePc = "idle"

IdleSummaries ==
    /\ summaryContents = <<>>
    /\ summaryRequests = <<>>
    /\ summaryCall = <<>>

IdleServices ==
    IdleEnsure /\ IdleUpload /\ IdleQuery /\ IdleRetrieve /\ IdleSummaries

InitChunk ==
    /\ content \in Texts
    /\ strategy = DEFAULT_CHUNK_STRATEGIES[1]
    /\ parentChunks = <<>>
    /\ chunkPc = "ready"
    /\ IdleSplit
    /\ IdleConfig
    /\ IdleEmbed
    /\ IdleServices

ChunkWithStrategy ==
    /\ chunkPc = "ready"
    /\ \E strat \in StrategySet :
        /\ strategy' = strat
        /\ parentChunks' = chunkWithStrategy(content, strat)
    /\ chunkPc' = "chunked"
    /\ UNCHANGED <<content, splitVars, configVars, embedVars>>
    /\ UNCHANGED serviceVars

NextChunk == ChunkWithStrategy

SpecChunk == InitChunk /\ [][NextChunk]_vars

----------------------------------------------------------------------------
(* characterLevelSplit step by step: one action per iteration of its while *)
(* loop.  It is reached with a text longer than chunkSize that holds none  *)
(* of the separators, and runs to completion once called (synchronous      *)
(* code), which is the fairness of SpecCharSplit.                          *)

CharLevelTexts ==
    {t \in Texts : \A q \in 1..Len(t) : t[q] \notin SeparatorChars}

InitCharSplit ==
    /\ splitText \in CharLevelTexts
    /\ splitSize \in ParentSizes \cup ChildSizes
    /\ Len(splitText) > splitSize
    /\ \E percent \in OverlapPercents :
        splitOverlap = overlapChars(splitSize, percent)
    /\ splitLoop = [start |-> 0, chunks |-> <<>>]
    /\ splitResult = <<>>
    /\ splitPc = "enter"
    /\ IdleChunk
    /\ IdleConfig
    /\ IdleEmbed
    /\ IdleServices

\* Lines 897-905: the step and its guard.
CharacterLevelSplitEnter ==
    /\ splitPc = "enter"
    /\ IF stepIsInvalid(splitSize - splitOverlap)
       THEN /\ splitResult' = <<splitText>>
            /\ splitPc' = "done"
       ELSE /\ splitResult' = splitResult
            /\ splitPc' = "loop"
    /\ UNCHANGED <<splitText, splitSize, splitOverlap, splitLoop>>
    /\ UNCHANGED <<chunkVars, configVars, embedVars>>
    /\ UNCHANGED serviceVars

\* One iteration of the while loop.  The bound on the number of chunks never
\* binds in the program, where start grows in every iteration; it keeps the
\* state space finite when it does not.
CharacterLevelSplitIterate ==
    /\ splitPc = "loop"
    /\ splitLoop.start < Len(splitText)
    /\ Len(splitLoop.chunks) <= Len(splitText)
    /\ splitLoop' = characterLevelSplitBody(splitText, splitSize,
                        splitSize - splitOverlap, splitLoop)
    /\ UNCHANGED <<splitText, splitSize, splitOverlap, splitResult, splitPc>>
    /\ UNCHANGED <<chunkVars, configVars, embedVars>>
    /\ UNCHANGED serviceVars

\* The loop condition fails: return chunks.
CharacterLevelSplitReturn ==
    /\ splitPc = "loop"
    /\ ~(splitLoop.start < Len(splitText))
    /\ splitResult' = splitLoop.chunks
    /\ splitPc' = "done"
    /\ UNCHANGED <<splitText, splitSize, splitOverlap, splitLoop>>
    /\ UNCHANGED <<chunkVars, configVars, embedVars>>
    /\ UNCHANGED serviceVars

NextCharSplit ==
    \/ CharacterLevelSplitEnter
    \/ CharacterLevelSplitIterate
    \/ CharacterLevelSplitReturn

SpecCharSplit ==
    InitCharSplit /\ [][NextCharSplit]_vars /\ WF_vars(NextCharSplit)

----------------------------------------------------------------------------
(* The configured strategy list: config.chunkStrategies is parsed from the *)
(* environment when the module loads, the ChunkingService constructor      *)
(* takes it over, addStrategy appends to it and chunkWithAllStrategies     *)
(* splits a document with every strategy of it.                            *)

\* CHUNK_STRATEGIES: unset, text that JSON.parse rejects, or the JSON text of
\* a strategy list (held here as the list it parses to).
EnvValues ==
    {[kind |-> "unset", value |-> <<>>], [kind |-> "malformed", value |-> <<>>]}
    \cup {[kind |-> "json", value |-> list] :
             list \in UNION {[1..n -> StrategySet] : n \in 0..1}}

parseChunkStrategies(e) ==
    IF e.kind = "json" THEN e.value ELSE DEFAULT_CHUNK_STRATEGIES

chunkWithAllStrategies(text, strats) ==
    [k \in 1..Len(strats) |->
        [strategy |-> strats[k],
         parentChunks |-> chunkWithStrategy(text, strats[k])]]

InitConfig ==
    /\ env \in EnvValues
    /\ strategies = <<>>
    /\ allResults = <<>>
    /\ configPc = "start"
    /\ IdleChunk
    /\ IdleSplit
    /\ IdleEmbed
    /\ IdleServices

\* The config module is loaded and "new ChunkingService()" takes
\* config.chunkStrategies.
ConstructService ==
    /\ configPc = "start"
    /\ strategies' = parseChunkStrategies(env)
    /\ configPc' = "constructed"
    /\ UNCHANGED <<env, allResults>>
    /\ UNCHANGED <<chunkVars, splitVars, embedVars>>
    /\ UNCHANGED serviceVars

AddStrategy ==
    /\ configPc \in {"constructed", "chunked"}
    /\ Len(strategies) < MaxStrategies
    /\ \E strat \in StrategySet : strategies' = Append(strategies, strat)
    /\ UNCHANGED <<env, allResults, configPc>>
    /\ UNCHANGED <<chunkVars, splitVars, embedVars>>
    /\ UNCHANGED serviceVars

ChunkWithAllStrategies ==
    /\ configPc \in {"constructed", "chunked"}
    /\ \E text \in ConfigTexts :
        allResults' = chunkWithAllStrategies(text, strategies)
    /\ configPc' = "chunked"
    /\ UNCHANGED <<env, strategies>>
    /\ UNCHANGED <<chunkVars, splitVars, embedVars>>
    /\ UNCHANGED serviceVars

NextConfig == ConstructService \/ AddStrategy \/ ChunkWithAllStrategies

SpecConfig == InitConfig /\ [][NextConfig]_vars

----------------------------------------------------------------------------
(* EmbeddingService.generateEmbeddings: one action per step between two    *)
(* suspension points.  The endpoint is the remote collaborator: it answers *)
(* a request with an error or with data items {embedding, index} in any    *)
(* order, and it may leave items out.                                      *)

Whitespace == {" ", "\n"}

\* String.prototype.trim.
RECURSIVE trimStart(_)
trimStart(text) ==
    IF text # <<>> /\ Head(text) \in Whitespace
    THEN trimStart(Tail(text)) ELSE text

RECURSIVE trimEnd(_)
trimEnd(text) ==
    IF text # <<>> /\ text[Len(text)] \in Whitespace
    THEN trimEnd(SubSeq(text, 1, Len(text) - 1)) ELSE text

trim(text) == trimEnd(trimStart(text))

\* JavaScript values held by the results array: an array of numbers, or
\* undefined.
ArrayValue(v) == [type |-> "array", value |-> v]
Undefined == [type |-> "undefined", value |-> <<>>]

\* The filter loop of generateEmbeddings over texts[i..] (i is 1-based here;
\* the index recorded is the 0-based one of the program).
RECURSIVE filterValidTexts(_, _)
filterValidTexts(ts, i) ==
    IF i > Len(ts)
    THEN <<>>
    ELSE LET text == trim(ts[i])
         IN  (IF Len(text) > 0 THEN <<[index |-> i - 1, text |-> text]>>
              ELSE <<>>)
             \o filterValidTexts(ts, i + 1)

\* The vector the endpoint computes for an input text: the character codes,
\* so that different inputs get different vectors.
charCode(c) ==
    IF c = "x" THEN 120 ELSE IF c = "y" THEN 121 ELSE IF c = "a" THEN 97
    ELSE IF c = "s" THEN 115 ELSE IF c = "\n" THEN 10 ELSE 32

endpointEmbedding(text) == [q \in 1..Len(text) |-> charCode(text[q])]

\* The data of the responses the endpoint may give to a request: for any
\* subset of the inputs, their items in any order.
ResponseData(batchTexts) ==
    UNION {
        {data \in [1..Cardinality(chosen) -> 
                      {[index |-> j, embedding |-> endpointEmbedding(batchTexts[j + 1])] :
                          j \in chosen}] :
            \A a, b \in 1..Cardinality(chosen) : a # b => data[a] # data[b]} :
        chosen \in SUBSET (0..(Len(batchTexts) - 1))}

\* Faulty variant of sortByIndex: the response is used in the order it arrived.
sortByIndexSkipped(data) == data

\* response.data.sort((a, b) => a.index - b.index)
RECURSIVE sortByIndex(_)
sortByIndex(data) ==
    IF data = <<>>
    THEN <<>>
    ELSE LET least == Min({data[k].index : k \in 1..Len(data)})
             at == Min({k \in 1..Len(data) : data[k].index = least})
         IN  <<data[at]>>
             \o sortByIndex(SubSeq(data, 1, at - 1)
                            \o SubSeq(data, at + 1, Len(data)))

\* The batch of the current iteration and the texts sent for it.
batchOf(valid, i) == slice(valid, i, i + DEFAULT_EMBEDDING_BATCH_SIZE)

batchTextsOf(batch) == [j \in 1..Len(batch) |-> batch[j].text]

\* "results[batch[j].index] = batchEmbeddings[j]" for every j of the batch;
\* an element past the end of batchEmbeddings is undefined.
placeBatch(res, batch, batchEmbeddings) ==
    [i \in 1..Len(res) |->
        LET js == {j \in 1..Len(batch) : batch[j].index = i - 1}
        IN  IF js = {}
            THEN res[i]
            ELSE IF Max(js) <= Len(batchEmbeddings)
                 THEN ArrayValue(batchEmbeddings[Max(js)])
                 ELSE Undefined]

InitEmbed ==
    /\ texts \in UNION {[1..n -> EmbedTexts] : n \in 0..MaxTexts}
    /\ validTexts = <<>>
    /\ results = <<>>
    /\ batchStart = 0
    /\ calls = <<>>
    /\ responses = <<>>
    /\ embedPc = "start"
    /\ IdleChunk
    /\ IdleSplit
    /\ IdleConfig
    /\ IdleServices

\* Lines 85-104: the early returns, the filter and the results array.
GenerateEmbeddingsStart ==
    /\ embedPc = "start"
    /\ LET valid == filterValidTexts(texts, 1)
       IN  IF Len(texts) = 0
           THEN /\ results' = <<>>
                /\ validTexts' = validTexts
                /\ embedPc' = "returned"
           ELSE IF Len(valid) = 0
                THEN /\ results' = [i \in 1..Len(texts) |-> ArrayValue(<<>>)]
                     /\ validTexts' = valid
                     /\ embedPc' = "returned"
                ELSE /\ results' = [i \in 1..Len(texts) |-> ArrayValue(<<>>)]
                     /\ validTexts' = valid
                     /\ embedPc' = "loop"
    /\ UNCHANGED <<texts, batchStart, calls, responses>>
    /\ UNCHANGED <<chunkVars, splitVars, configVars>>
    /\ UNCHANGED serviceVars

\* The loop condition holds: the request for the next batch is sent.
CallEmbeddingApi ==
    /\ embedPc = "loop"
    /\ batchStart < Len(validTexts)
    /\ calls' = Append(calls, batchTextsOf(batchOf(validTexts, batchStart)))
    /\ embedPc' = "await"
    /\ UNCHANGED <<texts, validTexts, results, batchStart, responses>>
    /\ UNCHANGED <<chunkVars, splitVars, configVars>>
    /\ UNCHANGED serviceVars

\* The endpoint answered 2xx: lines 113-120 and the loop increment.
ReceiveEmbeddings ==
    /\ embedPc = "await"
    /\ LET batch == batchOf(validTexts, batchStart)
       IN  \E data \in ResponseData(batchTextsOf(batch)) :
            LET sorted == sortByIndex(data)
                batchEmbeddings ==
                    [j \in 1..Len(sorted) |-> sorted[j].embedding]
            IN  /\ results' = placeBatch(results, batch, batchEmbeddings)
                /\ responses' = Append(responses, data)
    /\ batchStart' = batchStart + DEFAULT_EMBEDDING_BATCH_SIZE
    /\ embedPc' = "loop"
    /\ UNCHANGED <<texts, validTexts, calls>>
    /\ UNCHANGED <<chunkVars, splitVars, configVars>>
    /\ UNCHANGED serviceVars

\* The endpoint answered non-2xx or the transport failed: callEmbeddingApi
\* throws and generateEmbeddings rethrows.
EmbeddingApiFails ==
    /\ embedPc = "await"
    /\ embedPc' = "failed"
    /\ UNCHANGED <<texts, validTexts, results, batchStart, calls, responses>>
    /\ UNCHANGED <<chunkVars, splitVars, configVars>>
    /\ UNCHANGED serviceVars

\* The loop condition fails: return results.
GenerateEmbeddingsReturn ==
    /\ embedPc = "loop"
    /\ ~(batchStart < Len(validTexts))
    /\ embedPc' = "returned"
    /\ UNCHANGED <<texts, validTexts, results, batchStart, calls, responses>>
    /\ UNCHANGED <<chunkVars, splitVars, configVars>>
    /\ UNCHANGED serviceVars

NextEmbed ==
    \/ GenerateEmbeddingsStart
    \/ CallEmbeddingApi
    \/ ReceiveEmbeddings
    \/ EmbeddingApiFails
    \/ GenerateEmbeddingsReturn

SpecEmbed == InitEmbed /\ [][NextEmbed]_vars

----------------------------------------------------------------------------
(* DocumentService.ensureStrategy, called by concurrent ingest requests.   *)
(* Each call is suspended at its findUnique and at its create; the calls   *)
(* share nothing but the chunk_strategies table.                           *)

\* Ingest requests that reach ensureStrategy, and the strategies they carry.
MaxEnsureCalls == 3
EnsureStrategies ==
    {[parentChunkSize |-> 2, childChunkSize |-> 1, overlapPercent |-> 0],
     [parentChunkSize |-> 2, childChunkSize |-> 1, overlapPercent |-> 50]}

\* null, as returned by findUnique when no row matches.
NoRow == [id |-> 0]

\* The compound key parentChunkSize_childChunkSize_overlapPercent.
sameTriple(row, strat) ==
    /\ row.parentChunkSize = strat.parentChunkSize
    /\ row.childChunkSize = strat.childChunkSize
    /\ row.overlapPercent = strat.overlapPercent

\* prisma.chunkStrategy.findUnique({where: {the compound key}}).
findUnique(table, strat) ==
    LET hits == {k \in 1..Len(table) : sameTriple(table[k], strat)}
    IN  IF hits = {} THEN NoRow ELSE table[Min(hits)]

\* chunk_strategies carries UNIQUE(parent_chunk_size, child_chunk_size,
\* overlap_percent): an insert of a triple that is present is rejected.
violatesUnique(table, strat) ==
    \E k \in 1..Len(table) : sameTriple(table[k], strat)

\* The row prisma.chunkStrategy.create inserts; ids are never reused (rows
\* of this table are never deleted).
newStrategyRow(table, strat) ==
    [id |-> Len(table) + 1,
     parentChunkSize |-> strat.parentChunkSize,
     childChunkSize |-> strat.childChunkSize,
     overlapPercent |-> strat.overlapPercent]

\* Faulty variant of existingFound: the result of the find is ignored.
existingIgnored(existing) == FALSE

\* "if (existing)".
existingFound(existing) == existing # NoRow

InitEnsure ==
    /\ chunkStrategyTable = <<>>
    /\ ensureCalls = <<>>
    /\ IdleChunk
    /\ IdleSplit
    /\ IdleConfig
    /\ IdleEmbed
    /\ IdleUpload
    /\ IdleQuery
    /\ IdleRetrieve
    /\ IdleSummaries

\* An ingest request calls ensureStrategy(strategy): the findUnique is sent.
EnsureStrategyCall ==
    /\ Len(ensureCalls) < MaxEnsureCalls
    /\ \E strat \in EnsureStrategies :
        ensureCalls' = Append(ensureCalls,
            [strategy |-> strat, pc |-> "find", existing |-> NoRow,
             result |-> 0])
    /\ UNCHANGED chunkStrategyTable
    /\ UNCHANGED outsideEnsure

\* Lines 291-303: the findUnique resolves; an existing row is returned,
\* otherwise the create is sent.
EnsureStrategyFind(c) ==
    /\ ensureCalls[c].pc = "find"
    /\ LET existing == findUnique(chunkStrategyTable, ensureCalls[c].strategy)
       IN  ensureCalls' = [ensureCalls EXCEPT ![c] =
                IF existingFound(existing)
                THEN [@ EXCEPT !.pc = "done", !.existing = existing,
                               !.result = existing.id]
                ELSE [@ EXCEPT !.pc = "create", !.existing = existing]]
    /\ UNCHANGED chunkStrategyTable
    /\ UNCHANGED outsideEnsure

\* Lines 305-312: the create resolves with the new row.
EnsureStrategyCreate(c) ==
    /\ ensureCalls[c].pc = "create"
    /\ ~violatesUnique(chunkStrategyTable, ensureCalls[c].strategy)
    /\ LET row == newStrategyRow(chunkStrategyTable, ensureCalls[c].strategy)
       IN  /\ chunkStrategyTable' = Append(chunkStrategyTable, row)
           /\ ensureCalls' = [ensureCalls EXCEPT ![c] =
                [@ EXCEPT !.pc = "done", !.result = row.id]]
    /\ UNCHANGED outsideEnsure

\* Lines 305-312: the create is rejected by the unique constraint; nothing
\* catches the error and ensureStrategy rejects with it.
EnsureStrategyCreateCollides(c) ==
    /\ ensureCalls[c].pc = "create"
    /\ violatesUnique(chunkStrategyTable, ensureCalls[c].strategy)
    /\ ensureCalls' = [ensureCalls EXCEPT ![c] = [@ EXCEPT !.pc = "failed"]]
    /\ UNCHANGED chunkStrategyTable
    /\ UNCHANGED outsideEnsure

NextEnsure ==
    \/ EnsureStrategyCall
    \/ \E c \in 1..Len(ensureCalls) : EnsureStrategyFind(c)
    \/ \E c \in 1..Len(ensureCalls) : EnsureStrategyCreate(c)
    \/ \E c \in 1..Len(ensureCalls) : EnsureStrategyCreateCollides(c)

SpecEnsure == InitEnsure /\ [][NextEnsure]_vars

----------------------------------------------------------------------------
(* The query transformation of DocumentService.searchDocuments (lines      *)
(* 382-421) with QueryService (src/unnamed/part_004, lines 1-325): one     *)
(* action per step between two chat calls.  The chat endpoint is the       *)
(* remote collaborator: a call fails or returns some text.                 *)

\* Queries are made of at most MaxPieces of these pieces.  A character
\* outside ASCII is written as its code point and the grave accent as
\* "BACKTICK"; each is one character of the query.
MaxPieces == 2
QueryPieces ==
    {<<"H", "o", "w">>,
     <<"U+5982", "U+4F55">>,
     <<"d", "a", "t", "a", " ", "d", "a", "t", "a", " ", "d", "a", "t", "a", " ">>,
     <<"d", "a", "t", "a", "b", "a", "s", "e", " ">>,
     <<"a", "U", "s", "B">>,
     <<"a", "_", "b">>,
     <<".", "f", "(">>,
     <<"BACKTICK">>,
     <<" ">>}

RECURSIVE joinPieces(_)
joinPieces(pieces) ==
    IF pieces = <<>> THEN <<>> ELSE Head(pieces) \o joinPieces(Tail(pieces))

Queries ==
    {joinPieces(pieces) :
        pieces \in UNION {[1..n -> QueryPieces] : n \in 1..MaxPieces}}

\* An optional boolean of the request as the caller passed it.
Flags == {"undefined", "true", "false"}

\* Destructuring with a default: "{ use_hyde = false } = request".
withDefault(value, dflt) == IF value = "undefined" THEN dflt ELSE value

\* What a chat call made by analyzeQuery can come to: the call throws
\* ("error"), the text holds no "{...}" ("noObject"), JSON.parse rejects
\* the matched text ("badJson"), or it parses to an object whose strategy
\* field is as given.
ClassifierAnswers ==
    {[kind |-> "error", strategy |-> "none"],
     [kind |-> "noObject", strategy |-> "none"],
     [kind |-> "badJson", strategy |-> "none"]}
    \cup {[kind |-> "object", strategy |-> s] :
             s \in {"direct", "expansion", "hyde", "semantic", "none"}}

\* What a chat call made by expandQuery or generateHypotheticalDocument can
\* come to: the call throws, or it returns this text.
RewriteAnswers ==
    {[kind |-> "error", text |-> <<>>]}
    \cup {[kind |-> "text", text |-> t] :
             t \in {<<>>, <<" ">>, <<"E">>, <<" ", "E", "\n">>}}

UPPER ==
    <<"A", "B", "C", "D", "E", "F", "G", "H", "I", "J", "K", "L", "M",
      "N", "O", "P", "Q", "R", "S", "T", "U", "V", "W", "X", "Y", "Z">>
LOWER ==
    <<"a", "b", "c", "d", "e", "f", "g", "h", "i", "j", "k", "l", "m",
      "n", "o", "p", "q", "r", "s", "t", "u", "v", "w", "x", "y", "z">>
DIGITS == {"0", "1", "2", "3", "4", "5", "6", "7", "8", "9"}

isUpper(c) == \E k \in 1..Len(UPPER) : UPPER[k] = c
isLower(c) == \E k \in 1..Len(LOWER) : LOWER[k] = c
isWord(c) == isUpper(c) \/ isLower(c) \/ c \in DIGITS \/ c = "_"

\* The /i flag: letters compare by their lower-case form.
toLower(c) ==
    IF isUpper(c) THEN LOWER[CHOOSE k \in 1..Len(UPPER) : UPPER[k] = c] ELSE c

\* The alternatives of /^(...)/i in getDefaultStrategy; a character outside
\* ASCII is written as its code point.
QUESTION_WORDS ==
    {<<"U+5982", "U+4F55">>, <<"U+600E", "U+4E48">>, <<"U+600E", "U+6837">>, <<"U+4E3A", "U+4EC0", "U+4E48">>,
     <<"U+4EC0", "U+4E48", "U+662F">>, <<"U+662F", "U+4EC0", "U+4E48">>,
     <<"h", "o", "w">>, <<"w", "h", "a", "t">>, <<"w", "h", "y">>,
     <<"w", "h", "e", "n">>, <<"w", "h", "e", "r", "e">>}

startsWithQuestionWord(q) ==
    \E w \in QUESTION_WORDS :
        /\ Len(q) >= Len(w)
        /\ \A k \in 1..Len(w) : toLower(q[k]) = w[k]

\* trimmedQuery.split(/\s+/).length.
tokenCount(q) ==
    IF q = <<>>
    THEN 1
    ELSE Cardinality({k \in 1..Len(q) :
            q[k] \notin Whitespace /\ (k = 1 \/ q[k - 1] \in Whitespace)})

\* /[A-Z][a-z]+[A-Z]|_[a-z]+|\.[\w]+\(|`/.test(trimmedQuery)
looksLikeCode(q) ==
    \/ \E i, j \in 1..Len(q) :
        /\ i + 2 <= j /\ isUpper(q[i]) /\ isUpper(q[j])
        /\ \A k \in (i + 1)..(j - 1) : isLower(q[k])
    \/ \E i \in 1..(Len(q) - 1) : q[i] = "_" /\ isLower(q[i + 1])
    \/ \E i, j \in 1..Len(q) :
        /\ i + 2 <= j /\ q[i] = "." /\ q[j] = "("
        /\ \A k \in (i + 1)..(j - 1) : isWord(q[k])
    \/ \E i \in 1..Len(q) : q[i] = "BACKTICK"

SHORT_QUERY_LENGTH == 10
SHORT_QUERY_TOKENS == 3

\* Faulty variant of getDefaultStrategy: the code test comes before the
\* length test.
getDefaultStrategyCodeFirst(query) ==
    LET trimmedQuery == trim(query)
    IN  IF startsWithQuestionWord(trimmedQuery) THEN "hyde"
        ELSE IF looksLikeCode(trimmedQuery) THEN "direct"
        ELSE "expansion"

\* QueryService.getDefaultStrategy: the strategy of the analysis returned.
getDefaultStrategy(query) ==
    LET trimmedQuery == trim(query)
    IN  IF startsWithQuestionWord(trimmedQuery) THEN "hyde"
        ELSE IF \/ Len(trimmedQuery) < SHORT_QUERY_LENGTH
                \/ tokenCount(trimmedQuery) < SHORT_QUERY_TOKENS
             THEN "expansion"
        ELSE IF looksLikeCode(trimmedQuery) THEN "direct"
        ELSE "expansion"

\* QueryService.analyzeQuery, given what its chat call came to.
analyzeQuery(query, answer) ==
    IF answer.kind = "object"
    THEN IF answer.strategy \in {"direct", "expansion", "hyde"}
         THEN answer.strategy
         ELSE "expansion"
    ELSE getDefaultStrategy(query)

\* Faulty variant of rewriteFallback: a failed call yields the empty text.
rewriteFallbackEmpty(query) == <<>>

\* The catch blocks of expandQuery and generateHypotheticalDocument.
rewriteFallback(query) == query

\* expandQuery / generateHypotheticalDocument, given what the chat call came
\* to: "return expanded.trim() || query" or the catch block.
rewriteQuery(query, answer) ==
    IF answer.kind = "error"
    THEN rewriteFallback(query)
    ELSE IF trim(answer.text) # <<>> THEN trim(answer.text) ELSE query

SearchRequests ==
    [query : Queries, use_smart_query : Flags, use_query_expansion : Flags,
     use_hyde : Flags]

NoLocals ==
    [searchQuery |-> <<>>, queryStrategy |-> "undefined",
     analysis |-> "undefined"]

useSmartQuery == withDefault(searchRequest.use_smart_query, "true") = "true"
useQueryExpansion ==
    withDefault(searchRequest.use_query_expansion, "true") = "true"
useHyde == withDefault(searchRequest.use_hyde, "false") = "true"

InitQuery ==
    /\ searchRequest \in SearchRequests
    /\ queryLocals = [NoLocals EXCEPT !.searchQuery = searchRequest.query]
    /\ chatLog = <<>>
    /\ queryPc = "start"
    /\ IdleChunk
    /\ IdleSplit
    /\ IdleConfig
    /\ IdleEmbed
    /\ IdleEnsure
    /\ IdleUpload
    /\ IdleRetrieve
    /\ IdleSummaries

\* Lines 382-416 up to the first await: which chat call, if any, is sent.
SearchDocumentsStart ==
    /\ queryPc = "start"
    /\ IF useSmartQuery
       THEN /\ queryPc' = "analyze"
            /\ queryLocals' = queryLocals
       ELSE IF useQueryExpansion \/ useHyde
            THEN /\ queryPc' = IF useHyde THEN "hyde" ELSE "expand"
                 /\ queryLocals' = queryLocals
            ELSE /\ queryPc' = "embedding"
                 /\ queryLocals' = [queryLocals EXCEPT !.queryStrategy = "direct"]
    /\ UNCHANGED <<searchRequest, chatLog>>
    /\ UNCHANGED outsideQuery

\* getSmartEnhancedQuery: the classifier call returned or threw; the switch
\* over analysis.strategy returns the query or sends the next chat call.
AnalyzeQueryReturns ==
    /\ queryPc = "analyze"
    /\ \E answer \in ClassifierAnswers :
        LET analysis == analyzeQuery(searchRequest.query, answer)
        IN  /\ chatLog' = Append(chatLog,
                    [call |-> "analyze", failed |-> answer.kind = "error",
                     answer |-> answer.kind, strategy |-> answer.strategy])
            /\ IF analysis = "direct"
               THEN /\ queryLocals' = [searchQuery |-> searchRequest.query,
                                       queryStrategy |-> analysis,
                                       analysis |-> analysis]
                    /\ queryPc' = "embedding"
               ELSE /\ queryLocals' = [queryLocals EXCEPT !.analysis = analysis]
                    /\ queryPc' = IF analysis = "hyde" THEN "hyde" ELSE "expand"
    /\ UNCHANGED searchRequest
    /\ UNCHANGED outsideQuery

\* expandQuery or generateHypotheticalDocument returned; searchDocuments
\* takes the result over (lines 401-403 or 411-412).
RewriteReturns ==
    /\ queryPc \in {"expand", "hyde"}
    /\ \E answer \in RewriteAnswers :
        /\ chatLog' = Append(chatLog,
                [call |-> queryPc, failed |-> answer.kind = "error",
                 answer |-> answer.kind, strategy |-> "none"])
        /\ queryLocals' =
            [queryLocals EXCEPT
                !.searchQuery = rewriteQuery(searchRequest.query, answer),
                !.queryStrategy =
                    IF useSmartQuery THEN queryLocals.analysis
                    ELSE IF useHyde THEN "hyde" ELSE "expansion"]
    /\ queryPc' = "embedding"
    /\ UNCHANGED searchRequest
    /\ UNCHANGED outsideQuery

NextQuery == SearchDocumentsStart \/ AnalyzeQueryReturns \/ RewriteReturns

SpecQuery == InitQuery /\ [][NextQuery]_vars

----------------------------------------------------------------------------
(* Retrieval and re-ranking: DocumentService.searchDocuments from the      *)
(* embedding of the effective query on (lines 418-487), rerankResults and  *)
(* llmRerank.  A similarity is held in thousandths (800 is 0.8), a         *)
(* relevance score as the integer 0..10 the chat model gives.              *)

\* Rows the store holds above the threshold, the similarities they have, and
\* the top_k values requested.
MaxRows == 4
StoredSimilarities == {400, 800}
TopKs == {1, 2}

\* The rows in the order of the SQL query: by ascending distance, that is by
\* descending similarity; child names the child span of the row.
StoredRowLists ==
    {rows \in UNION {[1..n -> [child : 1..MaxRows,
                              similarity : StoredSimilarities]] :
                        n \in 0..MaxRows} :
        /\ \A k \in 1..Len(rows) : rows[k].child = k
        /\ \A k \in 1..(Len(rows) - 1) :
            rows[k].similarity >= rows[k + 1].similarity}

\* Longest list of scores in an answer of the chat model, and the scores.
MaxScoreItems == 3
ScoreValues == {0, 9}

\* What the chat call of llmRerank can come to: the call throws or answers
\* non-2xx ("error"), the text holds no "[...]" ("noArray"), JSON.parse
\* rejects the matched text ("badJson"), or it parses to this list of
\* {id, score}.
RerankAnswers ==
    {[kind |-> "error", scores |-> <<>>],
     [kind |-> "noArray", scores |-> <<>>],
     [kind |-> "badJson", scores |-> <<>>]}
    \cup {[kind |-> "scores", scores |-> list] :
            list \in UNION {[1..n -> [id : 0..(MaxRows - 1),
                                      score : ScoreValues]] :
                               n \in 0..MaxScoreItems}}

\* Faulty variant of retrieveCountOf: three times top_k in every case.
retrieveCountAlwaysTriple(useRerank, topK) == topK * 3

\* "use_rerank ? top_k * 3 : top_k".
retrieveCountOf(useRerank, topK) == IF useRerank THEN topK * 3 ELSE topK

\* The SQL query: "ORDER BY distance LIMIT retrieveCount" over the rows
\* above the threshold.
queryRows(rows, retrieveCount) == slice(rows, 0, retrieveCount)

DEFAULT_LLM_SCORE == 5

\* Faulty variant of llmScoreOf: a candidate without a score gets 0.
llmScoreMissingIsZero(scores, idx) ==
    LET hits == {k \in 1..Len(scores) : scores[k].id = idx}
    IN  IF hits = {} THEN 0 ELSE scores[Min(hits)].score

\* "scores.find((s) => s.id === idx)?.score ?? 5".
llmScoreOf(scores, idx) ==
    LET hits == {k \in 1..Len(scores) : scores[k].id = idx}
    IN  IF hits = {} THEN DEFAULT_LLM_SCORE ELSE scores[Min(hits)].score

\* "Number(result.similarity) * 0.3 + (llmScore / 10) * 0.7", in thousandths.
combinedScore(similarity, llmScore) == (3 * similarity) \div 10 + 70 * llmScore

\* Array.prototype.sort((a, b) => b.similarity - a.similarity): stable.
RECURSIVE sortBySimilarityDesc(_)
sortBySimilarityDesc(rows) ==
    IF rows = <<>>
    THEN <<>>
    ELSE LET best == Max({rows[k].similarity : k \in 1..Len(rows)})
             at == Min({k \in 1..Len(rows) : rows[k].similarity = best})
         IN  <<rows[at]>>
             \o sortBySimilarityDesc(SubSeq(rows, 1, at - 1)
                                     \o SubSeq(rows, at + 1, Len(rows)))

\* Faulty variant of llmRerankFallback: the candidates are returned as they
\* are.
llmRerankFallbackUncut(rows, topK) == rows

\* The catch block of llmRerank: "return results.slice(0, topK)".
llmRerankFallback(rows, topK) == slice(rows, 0, topK)

\* llmRerank, given what its chat call came to.
llmRerank(rows, topK, answer) ==
    IF answer.kind # "scores"
    THEN llmRerankFallback(rows, topK)
    ELSE LET scoredResults ==
                 [k \in 1..Len(rows) |->
                    [rows[k] EXCEPT !.similarity =
                        combinedScore(rows[k].similarity,
                                      llmScoreOf(answer.scores, k - 1))]]
         IN  slice(sortBySimilarityDesc(scoredResults), 0, topK)

RetrieveRequests ==
    [query : {<<"Q">>}, searchQuery : {<<"Q">>, <<"E">>}, top_k : TopKs,
     use_rerank : Flags]

useRerank == withDefault(retrieveRequest.use_rerank, "true") = "true"

NoResponse == [total_results |-> 0, results |-> <<>>]
NoAnswer == [kind |-> "none", scores |-> <<>>]

InitRetrieve ==
    /\ retrieveRequest \in RetrieveRequests
    /\ storedRows \in StoredRowLists
    /\ retrieveLocals =
        [embedded |-> <<>>, retrieveCount |-> 0, results |-> <<>>,
         rerankQuery |-> <<>>, answer |-> NoAnswer, response |-> NoResponse]
    /\ retrievePc = "embedding"
    /\ IdleChunk
    /\ IdleSplit
    /\ IdleConfig
    /\ IdleEmbed
    /\ IdleEnsure
    /\ IdleUpload
    /\ IdleQuery
    /\ IdleSummaries

\* The response of searchDocuments for these results.
responseOf(rows) == [total_results |-> Len(rows), results |-> rows]

\* Lines 419-425: the embedding of the effective query resolves and the SQL
\* query is sent with its limit.
QueryEmbedded ==
    /\ retrievePc = "embedding"
    /\ retrieveLocals' =
        [retrieveLocals EXCEPT
            !.embedded = retrieveRequest.searchQuery,
            !.retrieveCount =
                retrieveCountOf(useRerank, retrieveRequest.top_k)]
    /\ retrievePc' = "querying"
    /\ UNCHANGED <<retrieveRequest, storedRows>>
    /\ UNCHANGED outsideRetrieve

\* The embedding call or the SQL query rejects: searchDocuments rejects.
RetrievalFails ==
    /\ retrievePc \in {"embedding", "querying"}
    /\ retrievePc' = "failed"
    /\ UNCHANGED <<retrieveRequest, storedRows, retrieveLocals>>
    /\ UNCHANGED outsideRetrieve

\* Lines 474-486 and 493-500: the rows arrive; without re-ranking, or with
\* no more than top_k rows, the response is returned, otherwise the chat
\* call of llmRerank is sent with the original query.
RowsRetrieved ==
    /\ retrievePc = "querying"
    /\ LET rows == queryRows(storedRows, retrieveLocals.retrieveCount)
       IN  IF useRerank /\ Len(rows) > 0
           THEN IF Len(rows) <= retrieveRequest.top_k
                THEN /\ retrieveLocals' =
                        [retrieveLocals EXCEPT
                            !.results = rows,
                            !.rerankQuery = retrieveRequest.query,
                            !.response = responseOf(rows)]
                     /\ retrievePc' = "returned"
                ELSE /\ retrieveLocals' =
                        [retrieveLocals EXCEPT
                            !.results = rows,
                            !.rerankQuery = retrieveRequest.query]
                     /\ retrievePc' = "reranking"
           ELSE /\ retrieveLocals' =
                    [retrieveLocals EXCEPT
                        !.results = rows, !.response = responseOf(rows)]
                /\ retrievePc' = "returned"
    /\ UNCHANGED <<retrieveRequest, storedRows>>
    /\ UNCHANGED outsideRetrieve

\* llmRerank lines 572-609: the chat call resolves or rejects; the result of
\* llmRerank is the result of rerankResults and goes into the response.
RerankReturns ==
    /\ retrievePc = "reranking"
    /\ \E answer \in RerankAnswers :
        LET reranked ==
                llmRerank(retrieveLocals.results, retrieveRequest.top_k, answer)
        IN  retrieveLocals' =
                [retrieveLocals EXCEPT
                    !.answer = answer,
                    !.response = responseOf(reranked)]
    /\ retrievePc' = "returned"
    /\ UNCHANGED <<retrieveRequest, storedRows>>
    /\ UNCHANGED outsideRetrieve

NextRetrieve ==
    QueryEmbedded \/ RetrievalFails \/ RowsRetrieved \/ RerankReturns

SpecRetrieve == InitRetrieve /\ [][NextRetrieve]_vars

----------------------------------------------------------------------------
(* DocumentService.uploadDocument for one request (lines 113-283), with    *)
(* SummaryService.generateSummary (src/unnamed/part_002, lines 86-112) and *)
(* EmbeddingService.generateContextualEmbeddings: one action per await     *)
(* that resolves, and one for an await that rejects.                       *)

\* The strategies of the ChunkingService of the DocumentService, and the
\* documents uploaded.
UploadStrategies ==
    << [parentChunkSize |-> 2, childChunkSize |-> 1, overlapPercent |-> 0],
       [parentChunkSize |-> 4, childChunkSize |-> 2, overlapPercent |-> 0] >>

UploadTexts ==
    {<<>>, <<" ">>, <<"a">>, <<"a", " ", "a">>,
     <<"a", "\n", "\n", " ", "\n", "\n", "a">>}

\* request.title: absent or a text.
UploadTitles == {<<>>, <<"t">>}

\* request.type, as the text that goes into the enriched text.
DocumentTypeText == <<"T">>

\* What the chat call of generateSummary returns when it does not fail.
SummaryAnswers == {<<>>, <<"s">>}

SUMMARY_FALLBACK_LENGTH == 200

\* generateSummary for a content that is not blank, given the text of the
\* chat answer: lines 103-107.
summaryOf(text, answer) ==
    IF trim(answer) = <<>>
    THEN slice(text, 0, SUMMARY_FALLBACK_LENGTH)
         \o (IF Len(text) > SUMMARY_FALLBACK_LENGTH
             THEN <<".", ".", ".">> ELSE <<>>)
    ELSE answer

\* Faulty variant of generateSummaryCatch: the error is logged and an empty
\* summary returned.
generateSummaryCatchSwallows(error) == [rethrown |-> FALSE, summary |-> <<>>]

\* The catch block of generateSummary: "console.error(...); throw error".
generateSummaryCatch(error) == [rethrown |-> TRUE, summary |-> <<>>]

\* EmbeddingService.buildEnrichedText; a label such as "[title]" is one
\* character that is not whitespace, and parts are joined by "\n".
RECURSIVE joinLines(_)
joinLines(parts) ==
    IF Len(parts) = 1
    THEN parts[1]
    ELSE parts[1] \o <<"\n">> \o joinLines(Tail(parts))

buildEnrichedText(text, context) ==
    joinLines(
        (IF context.title # <<>>
         THEN << <<"LABEL_TITLE", " ">> \o context.title >> ELSE <<>>)
        \o (IF context.documentType # <<>>
            THEN << <<"LABEL_TYPE", " ">> \o context.documentType >>
            ELSE <<>>)
        \o (IF context.parentSummary # <<>>
            THEN << <<"LABEL_SUMMARY", " ">> \o context.parentSummary >>
            ELSE <<>>)
        \o << <<"LABEL_CONTENT", " ">> \o text >>)

\* Lines 173-199: the children of all parents, in document order.
RECURSIVE childItemsOf(_, _, _, _)
childItemsOf(parents, summaries, title, pIdx) ==
    IF pIdx > Len(parents)
    THEN <<>>
    ELSE [c \in 1..Len(parents[pIdx].children) |->
            [content |-> parents[pIdx].children[c].content,
             context |-> [title |-> title,
                          parentSummary |-> summaries[pIdx],
                          documentType |-> DocumentTypeText]]]
         \o childItemsOf(parents, summaries, title, pIdx + 1)

\* generateContextualEmbeddings lines 176-178.
enrichedTextsOf(items) ==
    [k \in 1..Len(items) |->
        buildEnrichedText(items[k].content, items[k].context)]

\* EMBEDDING_TYPES.CONTENT
EMBEDDING_TYPE_CONTENT == "content"

\* "if (childEmbedding && childEmbedding.length > 0)".
embeddingIsSaved(childEmbedding) ==
    childEmbedding.type = "array" /\ childEmbedding.value # <<>>

\* What the error handler reads of an Error: its name, and whether its
\* message includes "OpenAI".
NoError == [name |-> "none", mentionsOpenAI |-> FALSE]

\* The errors of callChatApi and callEmbeddingApi: "new Error(`... API
\* error: ${response.status} - ${errorText}`)" for a non-2xx answer, whose
\* text is the endpoint's and may or may not include "OpenAI", and the
\* TypeError of a fetch that fails in transport.
RemoteErrors ==
    {[name |-> "Error", mentionsOpenAI |-> FALSE],
     [name |-> "Error", mentionsOpenAI |-> TRUE],
     [name |-> "TypeError", mentionsOpenAI |-> FALSE]}

\* The errors of a rejected prisma call: a known request error (such as a
\* constraint violation) or another one (such as a lost connection).
DatabaseErrors ==
    {[name |-> "PrismaClientKnownRequestError", mentionsOpenAI |-> FALSE],
     [name |-> "PrismaClientUnknownRequestError", mentionsOpenAI |-> FALSE]}

HTTP_CREATED == 201
HTTP_BAD_REQUEST == 400
HTTP_BAD_GATEWAY == 502
HTTP_INTERNAL_ERROR == 500

\* errorHandler: the status of the response for an error passed to next().
errorHandler(error) ==
    IF error.name = "PrismaClientKnownRequestError" THEN HTTP_BAD_REQUEST
    ELSE IF error.name = "APIError" \/ error.mentionsOpenAI
         THEN HTTP_BAD_GATEWAY
         ELSE HTTP_INTERNAL_ERROR

\* The tables before any request; created counts the rows ever inserted
\* into a table, from which the store draws the ids.
EmptyDatabase ==
    [documents |-> <<>>, parentChunks |-> <<>>, childChunks |-> <<>>,
     chunkEmbeddings |-> <<>>,
     created |-> [documents |-> 0, parentChunks |-> 0, childChunks |-> 0]]

\* The id the store gives a new row: one that no row of the table ever had.
newRowId(created) == created + 1

rowIds(table) == {table[k].id : k \in 1..Len(table)}

\* The foreign key of a new row names no row of the owning table.
violatesForeignKey(table, id) == id \notin rowIds(table)

\* The delete of a document row with its cascade: its parent rows, their
\* child rows and the embedding rows of those go with it.
deleteCascade(db, documentId) ==
    LET otherDocument(row) == row.id # documentId
        ofOtherDocument(row) == row.documentId # documentId
        parents == SelectSeq(db.parentChunks, ofOtherDocument)
        ownedChild(row) == row.parentChunkId \in rowIds(parents)
        children == SelectSeq(db.childChunks, ownedChild)
        ownedEmbedding(row) == row.chunkId \in rowIds(children)
    IN  [db EXCEPT !.documents = SelectSeq(@, otherDocument),
                   !.parentChunks = parents,
                   !.childChunks = children,
                   !.chunkEmbeddings = SelectSeq(@, ownedEmbedding)]

InitialUploadLocals ==
    [documentId |-> 0, strategyResults |-> <<>>, strategyIndex |-> 0,
     usedStrategies |-> <<>>, dbStrategyId |-> 0, parentSummaries |-> <<>>,
     validTexts |-> <<>>, results |-> <<>>, batchStart |-> 0,
     allEmbeddings |-> <<>>, embeddingIndex |-> 0, pIdx |-> 0, cIdx |-> 0,
     dbParentChunkId |-> 0, dbChildChunkId |-> 0,
     totalParentChunksCreated |-> 0, totalChildChunksCreated |-> 0,
     totalEmbeddingsCreated |-> 0, error |-> "none", thrown |-> NoError]

\* The parents of the strategy in progress.
currentParents(locals) ==
    locals.strategyResults[locals.strategyIndex].parentChunks

\* Lines 144-157: the loop goes to the next strategy that has parents and
\* sends the findUnique of ensureStrategy, or it ends and the response is
\* returned.
enterStrategy(locals, from) ==
    LET found == {k \in from..Len(locals.strategyResults) :
                    Len(locals.strategyResults[k].parentChunks) > 0}
    IN  IF found = {}
        THEN [pc |-> "returned",
              locals |-> [locals EXCEPT
                            !.strategyIndex = Len(locals.strategyResults) + 1]]
        ELSE [pc |-> "findStrategy",
              locals |-> [locals EXCEPT
                            !.strategyIndex = Min(found),
                            !.usedStrategies =
                                Append(@, locals.strategyResults[Min(found)].strategy),
                            !.parentSummaries = <<>>]]

\* Lines 216-226: the save loop sends the create of the first parent.
enterSaving(locals, embeddings) ==
    [pc |-> "createParent",
     locals |-> [locals EXCEPT !.allEmbeddings = embeddings,
                               !.embeddingIndex = 0, !.pIdx = 1, !.cIdx = 0]]

\* Lines 172-209 with generateEmbeddings lines 85-111: after the last
\* summary the enriched texts are built and the first batch is sent, unless
\* generateEmbeddings returns at once.
enterEmbedding(locals, summaries) ==
    LET withSummaries == [locals EXCEPT !.parentSummaries = summaries]
        enriched ==
            enrichedTextsOf(childItemsOf(currentParents(locals), summaries,
                                         uploadRequest.title, 1))
        valid == filterValidTexts(enriched, 1)
        placeholders == [k \in 1..Len(enriched) |-> ArrayValue(<<>>)]
    IN  IF Len(enriched) = 0
        THEN enterSaving(withSummaries, <<>>)
        ELSE IF Len(valid) = 0
        THEN enterSaving(withSummaries, placeholders)
        ELSE [pc |-> "embedBatch",
              locals |-> [withSummaries EXCEPT !.validTexts = valid,
                                               !.results = placeholders,
                                               !.batchStart = 0]]

\* Faulty variant of afterSummary: the first summary is used for every
\* parent and the embedding call is issued at once.
afterSummaryOnce(locals, summary) ==
    enterEmbedding(locals,
                   [q \in 1..Len(currentParents(locals)) |-> summary])

\* Lines 163-170: the summary of parent i is pushed; the loop goes on to
\* the next parent or ends.
afterSummary(locals, summary) ==
    LET summaries == Append(locals.parentSummaries, summary)
    IN  IF Len(summaries) < Len(currentParents(locals))
        THEN [pc |-> "summary",
              locals |-> [locals EXCEPT !.parentSummaries = summaries]]
        ELSE enterEmbedding(locals, summaries)

\* Lines 221-270: after the children of a parent the loops go to the next
\* parent or the next strategy.
afterParent(locals) ==
    IF locals.pIdx < Len(currentParents(locals))
    THEN [pc |-> "createParent",
          locals |-> [locals EXCEPT !.pIdx = @ + 1, !.cIdx = 0]]
    ELSE enterStrategy(locals, locals.strategyIndex + 1)

\* Faulty variant of afterChild: embeddingIndex is not incremented.
afterChildKeepsIndex(locals) ==
    IF locals.cIdx < Len(currentParents(locals)[locals.pIdx].children)
    THEN [pc |-> "createChild", locals |-> [locals EXCEPT !.cIdx = @ + 1]]
    ELSE afterParent(locals)

\* Lines 240-267: after a child (and its embedding) embeddingIndex is
\* incremented and the loop goes to the next child or ends.
afterChild(locals) ==
    LET next == [locals EXCEPT !.embeddingIndex = @ + 1]
    IN  IF locals.cIdx < Len(currentParents(locals)[locals.pIdx].children)
        THEN [pc |-> "createChild", locals |-> [next EXCEPT !.cIdx = @ + 1]]
        ELSE afterParent(next)

\* The entry of the history for the call that pc waits for; complete tells
\* of an answer of the embedding endpoint whether it carried an item for
\* every input.
logEntry(pc, ok) ==
    [op |-> pc,
     kind |-> IF pc \in {"summary", "embedBatch"} THEN "remote"
              ELSE IF pc = "findStrategy" THEN "read" ELSE "write",
     ok |-> ok,
     complete |-> TRUE]

InitUpload ==
    /\ uploadRequest \in [content : UploadTexts, title : UploadTitles]
    /\ uploadLocals = InitialUploadLocals
    /\ database = EmptyDatabase
    /\ uploadLog = <<>>
    /\ uploadPc = "received"
    /\ requestsServed = 1
    /\ deletedDocuments = {}
    /\ chunkStrategyTable \in
        {<<>>, <<newStrategyRow(<<>>, UploadStrategies[1])>>}
    /\ ensureCalls = <<>>
    /\ IdleChunk
    /\ IdleSplit
    /\ IdleConfig
    /\ IdleEmbed
    /\ IdleQuery
    /\ IdleRetrieve
    /\ IdleSummaries

\* The uploadDocument controller up to the call of the service: a request
\* without content is answered 400 at once.
UploadRequestValidated ==
    /\ uploadPc = "received"
    /\ uploadPc' = IF uploadRequest.content = <<>>
                   THEN "rejected" ELSE "createDocument"
    /\ UNCHANGED <<uploadRequest, uploadLocals, database, uploadLog,
                   chunkStrategyTable>>
    /\ UNCHANGED outsideUpload

\* The rest of the controller: the response of a request that has ended.
uploadResponse ==
    IF uploadPc = "rejected"
    THEN [status |-> HTTP_BAD_REQUEST, success |-> FALSE]
    ELSE IF uploadPc = "returned"
    THEN [status |-> HTTP_CREATED, success |-> TRUE]
    ELSE [status |-> errorHandler(uploadLocals.thrown), success |-> FALSE]

\* Lines 121-157: the document row is created, the text is split with every
\* strategy and the loop over the strategies is entered.
DocumentCreated ==
    /\ uploadPc = "createDocument"
    /\ LET id == newRowId(database.created.documents)
           entered ==
               enterStrategy(
                   [uploadLocals EXCEPT
                       !.documentId = id,
                       !.strategyResults =
                           chunkWithAllStrategies(uploadRequest.content,
                                                  UploadStrategies)], 1)
       IN  /\ database' = [database EXCEPT
                    !.documents =
                        Append(@, [id |-> id, content |-> uploadRequest.content]),
                    !.created.documents = @ + 1]
           /\ uploadLocals' = entered.locals
           /\ uploadPc' = entered.pc
    /\ uploadLog' = Append(uploadLog, logEntry(uploadPc, TRUE))
    /\ UNCHANGED <<uploadRequest, chunkStrategyTable>>
    /\ UNCHANGED outsideUpload

\* ensureStrategy lines 291-303: the findUnique resolves.
StrategyFound ==
    /\ uploadPc = "findStrategy"
    /\ LET existing ==
               findUnique(chunkStrategyTable,
                   uploadLocals.strategyResults[uploadLocals.strategyIndex].strategy)
       IN  IF existingFound(existing)
           THEN /\ uploadLocals' =
                    [uploadLocals EXCEPT !.dbStrategyId = existing.id]
                /\ uploadPc' = "summary"
           ELSE /\ uploadLocals' = uploadLocals
                /\ uploadPc' = "createStrategy"
    /\ uploadLog' = Append(uploadLog, logEntry(uploadPc, TRUE))
    /\ UNCHANGED <<uploadRequest, database, chunkStrategyTable>>
    /\ UNCHANGED outsideUpload

\* ensureStrategy lines 305-312: the create resolves.
StrategyCreated ==
    /\ uploadPc = "createStrategy"
    /\ LET strat ==
               uploadLocals.strategyResults[uploadLocals.strategyIndex].strategy
           row == newStrategyRow(chunkStrategyTable, strat)
       IN  /\ ~violatesUnique(chunkStrategyTable, strat)
           /\ chunkStrategyTable' = Append(chunkStrategyTable, row)
           /\ uploadLocals' = [uploadLocals EXCEPT !.dbStrategyId = row.id]
    /\ uploadPc' = "summary"
    /\ uploadLog' = Append(uploadLog, logEntry(uploadPc, TRUE))
    /\ UNCHANGED <<uploadRequest, database>>
    /\ UNCHANGED outsideUpload

\* The content of the parent whose summary is awaited.
summarizedContent ==
    currentParents(uploadLocals)[Len(uploadLocals.parentSummaries) + 1].content

\* generateSummary lines 91-94: a blank parent gets the empty summary and no
\* chat call is made.
SummaryOfBlank ==
    /\ uploadPc = "summary"
    /\ trim(summarizedContent) = <<>>
    /\ LET next == afterSummary(uploadLocals, <<>>)
       IN  /\ uploadLocals' = next.locals
           /\ uploadPc' = next.pc
    /\ UNCHANGED <<uploadRequest, database, uploadLog, chunkStrategyTable>>
    /\ UNCHANGED outsideUpload

\* generateSummary lines 96-107: the chat call returns.
SummaryReturns ==
    /\ uploadPc = "summary"
    /\ trim(summarizedContent) # <<>>
    /\ \E answer \in SummaryAnswers :
        LET next == afterSummary(uploadLocals,
                                 summaryOf(summarizedContent, answer))
        IN  /\ uploadLocals' = next.locals
            /\ uploadPc' = next.pc
    /\ uploadLog' = Append(uploadLog, logEntry(uploadPc, TRUE))
    /\ UNCHANGED <<uploadRequest, database, chunkStrategyTable>>
    /\ UNCHANGED outsideUpload

\* generateSummary lines 108-111: the chat call fails.
SummaryFails ==
    /\ uploadPc = "summary"
    /\ trim(summarizedContent) # <<>>
    /\ \E thrown \in RemoteErrors :
       LET caught == generateSummaryCatch(thrown)
           next == afterSummary(uploadLocals, caught.summary)
       IN  IF caught.rethrown
           THEN /\ uploadLocals' = [uploadLocals EXCEPT !.error = uploadPc,
                                                        !.thrown = thrown]
                /\ uploadPc' = "failed"
           ELSE /\ uploadLocals' = next.locals
                /\ uploadPc' = next.pc
    /\ uploadLog' = Append(uploadLog, logEntry(uploadPc, FALSE))
    /\ UNCHANGED <<uploadRequest, database, chunkStrategyTable>>
    /\ UNCHANGED outsideUpload

\* generateEmbeddings lines 111-120: the endpoint answers a batch; the next
\* batch is sent, or the results are returned and the save loop is entered.
EmbeddingsReceived ==
    /\ uploadPc = "embedBatch"
    /\ LET batch == batchOf(uploadLocals.validTexts, uploadLocals.batchStart)
       IN  \E data \in ResponseData(batchTextsOf(batch)) :
            LET sorted == sortByIndex(data)
                batchEmbeddings ==
                    [j \in 1..Len(sorted) |-> sorted[j].embedding]
                placed == placeBatch(uploadLocals.results, batch,
                                     batchEmbeddings)
                locals == [uploadLocals EXCEPT
                            !.results = placed,
                            !.batchStart = @ + DEFAULT_EMBEDDING_BATCH_SIZE]
                next == IF locals.batchStart < Len(locals.validTexts)
                        THEN [pc |-> "embedBatch", locals |-> locals]
                        ELSE enterSaving(locals, placed)
            IN  /\ uploadLocals' = next.locals
                /\ uploadPc' = next.pc
                /\ uploadLog' =
                    Append(uploadLog,
                           [logEntry(uploadPc, TRUE) EXCEPT
                               !.complete = (Len(data) = Len(batch))])
    /\ UNCHANGED <<uploadRequest, database, chunkStrategyTable>>
    /\ UNCHANGED outsideUpload

\* Lines 226-237: the parent row is created.
ParentCreated ==
    /\ uploadPc = "createParent"
    /\ ~violatesForeignKey(database.documents, uploadLocals.documentId)
    /\ LET parent == currentParents(uploadLocals)[uploadLocals.pIdx]
           id == newRowId(database.created.parentChunks)
           locals == [uploadLocals EXCEPT
                        !.dbParentChunkId = id,
                        !.totalParentChunksCreated = @ + 1]
           next == IF Len(parent.children) > 0
                   THEN [pc |-> "createChild",
                         locals |-> [locals EXCEPT !.cIdx = 1]]
                   ELSE afterParent(locals)
       IN  /\ database' = [database EXCEPT
                    !.parentChunks =
                        Append(@, [id |-> id, content |-> parent.content,
                                   parentIndex |-> parent.parentIndex,
                                   summary |->
                                       uploadLocals.parentSummaries[uploadLocals.pIdx],
                                   documentId |-> uploadLocals.documentId,
                                   strategyId |-> uploadLocals.dbStrategyId]),
                    !.created.parentChunks = @ + 1]
           /\ uploadLocals' = next.locals
           /\ uploadPc' = next.pc
    /\ uploadLog' = Append(uploadLog, logEntry(uploadPc, TRUE))
    /\ UNCHANGED <<uploadRequest, chunkStrategyTable>>
    /\ UNCHANGED outsideUpload

\* Lines 241-266: the child row is created; its embedding is saved if it is
\* a non-empty vector.
ChildCreated ==
    /\ uploadPc = "createChild"
    /\ ~violatesForeignKey(database.parentChunks, uploadLocals.dbParentChunkId)
    /\ LET child ==
               currentParents(uploadLocals)[uploadLocals.pIdx]
                   .children[uploadLocals.cIdx]
           id == newRowId(database.created.childChunks)
           childEmbedding ==
               uploadLocals.allEmbeddings[uploadLocals.embeddingIndex + 1]
           locals == [uploadLocals EXCEPT
                        !.dbChildChunkId = id,
                        !.totalChildChunksCreated = @ + 1]
           next == IF embeddingIsSaved(childEmbedding)
                   THEN [pc |-> "saveEmbedding", locals |-> locals]
                   ELSE afterChild(locals)
       IN  /\ database' = [database EXCEPT
                    !.childChunks =
                        Append(@, [id |-> id, content |-> child.content,
                                   chunkIndex |-> child.chunkIndex,
                                   parentChunkId |-> uploadLocals.dbParentChunkId]),
                    !.created.childChunks = @ + 1]
           /\ uploadLocals' = next.locals
           /\ uploadPc' = next.pc
    /\ uploadLog' = Append(uploadLog, logEntry(uploadPc, TRUE))
    /\ UNCHANGED <<uploadRequest, chunkStrategyTable>>
    /\ UNCHANGED outsideUpload

\* Faulty variant of EmbeddingSaved: the embedding of a child is inserted
\* once for every embedding type, each time as the content embedding.
EmbeddingSavedTwice ==
    /\ uploadPc = "saveEmbedding"
    /\ ~violatesForeignKey(database.childChunks, uploadLocals.dbChildChunkId)
    /\ LET childEmbedding ==
               uploadLocals.allEmbeddings[uploadLocals.embeddingIndex + 1]
           row == [chunkId |-> uploadLocals.dbChildChunkId,
                   embeddingType |-> EMBEDDING_TYPE_CONTENT,
                   embedding |-> childEmbedding.value]
           next == afterChild([uploadLocals EXCEPT
                                !.totalEmbeddingsCreated = @ + 1])
       IN  /\ database' = [database EXCEPT !.chunkEmbeddings =
                                Append(Append(@, row), row)]
           /\ uploadLocals' = next.locals
           /\ uploadPc' = next.pc
    /\ uploadLog' = Append(uploadLog, logEntry(uploadPc, TRUE))
    /\ UNCHANGED <<uploadRequest, chunkStrategyTable>>
    /\ UNCHANGED outsideUpload

\* Lines 258-263 and saveEmbedding: the chunk_embeddings row is inserted.
EmbeddingSaved ==
    /\ uploadPc = "saveEmbedding"
    /\ ~violatesForeignKey(database.childChunks, uploadLocals.dbChildChunkId)
    /\ LET childEmbedding ==
               uploadLocals.allEmbeddings[uploadLocals.embeddingIndex + 1]
           next == afterChild([uploadLocals EXCEPT
                                !.totalEmbeddingsCreated = @ + 1])
       IN  /\ database' = [database EXCEPT !.chunkEmbeddings =
                    Append(@, [chunkId |-> uploadLocals.dbChildChunkId,
                               embeddingType |-> EMBEDDING_TYPE_CONTENT,
                               embedding |-> childEmbedding.value])]
           /\ uploadLocals' = next.locals
           /\ uploadPc' = next.pc
    /\ uploadLog' = Append(uploadLog, logEntry(uploadPc, TRUE))
    /\ UNCHANGED <<uploadRequest, chunkStrategyTable>>
    /\ UNCHANGED outsideUpload

\* A database call or the embedding call rejects: nothing in uploadDocument,
\* ensureStrategy or generateEmbeddings handles the error (generateEmbeddings
\* logs and rethrows it), and uploadDocument rejects with it.
UploadStepFails ==
    /\ uploadPc \in {"createDocument", "findStrategy", "createStrategy",
                     "embedBatch", "createParent", "createChild",
                     "saveEmbedding"}
    /\ \E thrown \in (IF uploadPc = "embedBatch"
                       THEN RemoteErrors ELSE DatabaseErrors) :
        uploadLocals' = [uploadLocals EXCEPT !.error = uploadPc,
                                            !.thrown = thrown]
    /\ uploadPc' = "failed"
    /\ uploadLog' = Append(uploadLog, logEntry(uploadPc, FALSE))
    /\ UNCHANGED <<uploadRequest, database, chunkStrategyTable>>
    /\ UNCHANGED outsideUpload

NextUpload ==
    \/ UploadRequestValidated
    \/ DocumentCreated
    \/ StrategyFound
    \/ StrategyCreated
    \/ SummaryOfBlank
    \/ SummaryReturns
    \/ SummaryFails
    \/ EmbeddingsReceived
    \/ ParentCreated
    \/ ChildCreated
    \/ EmbeddingSaved
    \/ UploadStepFails

SpecUpload == InitUpload /\ [][NextUpload]_vars

----------------------------------------------------------------------------
(* SummaryService.generateSummaries (src/unnamed/part_002, lines 159-174):  *)
(* the contents are summarised batch by batch, the generateSummary calls   *)
(* of a batch run concurrently under Promise.all.                          *)

\* DEFAULT_SUMMARY_CONCURRENCY is 5 in the program; the model runs the same
\* loop with a smaller batch so that several batches are needed.
DEFAULT_SUMMARY_CONCURRENCY == 2

\* Longest list of contents that is enumerated.
MaxContents == 5

SummaryContents ==
    UNION {[1..n -> {<<" ">>, <<"a">>}] : n \in 0..MaxContents}

\* Faulty variant of summaryBatch: the batch is the rest of the contents.
summaryBatchUnbounded(contents, i) == slice(contents, i, Len(contents))

\* contents.slice(i, i + DEFAULT_SUMMARY_CONCURRENCY)
summaryBatch(contents, i) == slice(contents, i, i + DEFAULT_SUMMARY_CONCURRENCY)

\* The (1-based) places in contents of the batch that starts at i.
batchPlaces(contents, i) == (i + 1)..(i + Len(summaryBatch(contents, i)))

NotStarted == [status |-> "notStarted", summary |-> <<>>]

\* batch.map((content) => this.generateSummary(content, documentType)):
\* every call of the batch runs to its first await; a blank content returns
\* "" without a request, any other content has its chat request in flight.
startBatch(contents, requests, i) ==
    [k \in 1..Len(requests) |->
        IF k \in batchPlaces(contents, i)
        THEN IF trim(contents[k]) = <<>>
             THEN [status |-> "resolved", summary |-> <<>>]
             ELSE [status |-> "inFlight", summary |-> <<>>]
        ELSE requests[k]]

batchResolved(contents, requests, i) ==
    \A k \in batchPlaces(contents, i) : requests[k].status = "resolved"

\* The for loop from the batch at call.i on, up to the next await that
\* waits for a request: batches whose calls all returned at once are pushed
\* and the loop goes on; after the last batch results is returned.
RECURSIVE runBatches(_, _, _)
runBatches(contents, requests, call) ==
    IF call.i >= Len(contents)
    THEN [requests |-> requests, call |-> [call EXCEPT !.pc = "returned"]]
    ELSE LET started == startBatch(contents, requests, call.i)
         IN  IF batchResolved(contents, started, call.i)
             THEN runBatches(contents, started,
                      [call EXCEPT
                          !.results = @ \o
                              [j \in 1..Len(summaryBatch(contents, call.i)) |->
                                  started[call.i + j].summary],
                          !.i = @ + DEFAULT_SUMMARY_CONCURRENCY])
             ELSE [requests |-> started, call |-> [call EXCEPT !.pc = "await"]]

InitSummaries ==
    /\ summaryContents \in SummaryContents
    /\ summaryRequests = [k \in 1..Len(summaryContents) |-> NotStarted]
    /\ summaryCall = [pc |-> "start", i |-> 0, results |-> <<>>, error |-> 0,
                      rejections |-> <<>>]
    /\ IdleChunk
    /\ IdleSplit
    /\ IdleConfig
    /\ IdleEmbed
    /\ IdleEnsure
    /\ IdleUpload
    /\ IdleQuery
    /\ IdleRetrieve

\* generateSummaries is called: the loop runs to its first pending await.
GenerateSummariesCall ==
    /\ summaryCall.pc = "start"
    /\ LET next == runBatches(summaryContents, summaryRequests, summaryCall)
       IN  /\ summaryRequests' = next.requests
           /\ summaryCall' = next.call
    /\ UNCHANGED summaryContents
    /\ UNCHANGED outsideSummaries

\* The chat request of generateSummary for contents[k] is answered.  When it
\* was the last of the batch that Promise.all waits for, the batch's results
\* are pushed in the order of the batch and the loop goes on.
SummaryRequestResolves(k) ==
    /\ summaryRequests[k].status = "inFlight"
    /\ \E answer \in SummaryAnswers :
        LET requests ==
                [summaryRequests EXCEPT
                    ![k] = [status |-> "resolved",
                            summary |-> summaryOf(summaryContents[k], answer)]]
            pushed ==
                [summaryCall EXCEPT
                    !.results = @ \o
                        [j \in 1..Len(summaryBatch(summaryContents, summaryCall.i)) |->
                            requests[summaryCall.i + j].summary],
                    !.i = @ + DEFAULT_SUMMARY_CONCURRENCY]
            next == runBatches(summaryContents, requests, pushed)
        IN  IF /\ summaryCall.pc = "await"
               /\ batchResolved(summaryContents, requests, summaryCall.i)
            THEN /\ summaryRequests' = next.requests
                 /\ summaryCall' = next.call
            ELSE /\ summaryRequests' = requests
                 /\ summaryCall' = summaryCall
    /\ UNCHANGED summaryContents
    /\ UNCHANGED outsideSummaries

\* The chat request for contents[k] fails: generateSummary rethrows, and
\* Promise.all rejects with the first rejection of the batch, which ends
\* generateSummaries; the other requests of the batch stay in flight.
SummaryRequestRejects(k) ==
    /\ summaryRequests[k].status = "inFlight"
    /\ summaryRequests' =
        [summaryRequests EXCEPT ![k] = [status |-> "rejected", summary |-> <<>>]]
    /\ summaryCall' =
        IF summaryCall.pc = "await"
        THEN [summaryCall EXCEPT !.pc = "failed", !.error = k,
                                 !.rejections = Append(@, k)]
        ELSE [summaryCall EXCEPT !.rejections = Append(@, k)]
    /\ UNCHANGED summaryContents
    /\ UNCHANGED outsideSummaries

NextSummaries ==
    \/ GenerateSummariesCall
    \/ \E k \in 1..MaxContents :
        /\ k <= Len(summaryContents)
        /\ SummaryRequestResolves(k)
    \/ \E k \in 1..MaxContents :
        /\ k <= Len(summaryContents)
        /\ SummaryRequestRejects(k)

SpecSummaries == InitSummaries /\ [][NextSummaries]_vars

----------------------------------------------------------------------------
(* The store over a sequence of upload requests, with deleteDocument       *)
(* (lines 368-373) running at any moment, also while uploadDocument is     *)
(* suspended at one of its awaits.                                         *)

\* The number of upload requests that are served one after the other.
MaxRequests == 2

StoreTexts == {<<" ">>, <<"a">>}

StoreRequests == [content : StoreTexts, title : {<<>>}]

InitStore ==
    /\ uploadRequest \in StoreRequests
    /\ uploadLocals = InitialUploadLocals
    /\ database = EmptyDatabase
    /\ uploadLog = <<>>
    /\ uploadPc = "received"
    /\ requestsServed = 1
    /\ deletedDocuments = {}
    /\ chunkStrategyTable = <<>>
    /\ ensureCalls = <<>>
    /\ IdleChunk
    /\ IdleSplit
    /\ IdleConfig
    /\ IdleEmbed
    /\ IdleQuery
    /\ IdleRetrieve
    /\ IdleSummaries

\* The controller receives the next upload request after the previous one
\* was answered.
UploadRequestReceived ==
    /\ uploadPc \in {"rejected", "returned", "failed"}
    /\ requestsServed < MaxRequests
    /\ uploadRequest' \in StoreRequests
    /\ uploadLocals' = InitialUploadLocals
    /\ uploadLog' = <<>>
    /\ uploadPc' = "received"
    /\ requestsServed' = requestsServed + 1
    /\ UNCHANGED <<database, deletedDocuments, ensureVars>>
    /\ UNCHANGED <<pipelineVars, queryVars, retrieveVars, summaryVars>>

\* Faulty variant of DeleteDocument: the delete is answered as done but
\* its filter matched no row.
DeleteDocumentOfNone(documentId) ==
    /\ documentId \in rowIds(database.documents)
    /\ deletedDocuments' = deletedDocuments \cup {documentId}
    /\ UNCHANGED <<uploadRequest, uploadLocals, uploadLog, uploadPc,
                   requestsServed, ensureVars, database>>
    /\ UNCHANGED <<pipelineVars, queryVars, retrieveVars, summaryVars>>

\* deleteDocument(documentId) for a document that exists: the row is
\* deleted, with the cascade of the schema.
DeleteDocument(documentId) ==
    /\ documentId \in rowIds(database.documents)
    /\ database' = deleteCascade(database, documentId)
    /\ deletedDocuments' = deletedDocuments \cup {documentId}
    /\ UNCHANGED <<uploadRequest, uploadLocals, uploadLog, uploadPc,
                   requestsServed, ensureVars>>
    /\ UNCHANGED <<pipelineVars, queryVars, retrieveVars, summaryVars>>

\* The row that the create uploadDocument waits for would refer to.
ownerMissing ==
    \/ /\ uploadPc = "createParent"
       /\ violatesForeignKey(database.documents, uploadLocals.documentId)
    \/ /\ uploadPc = "createChild"
       /\ violatesForeignKey(database.parentChunks, uploadLocals.dbParentChunkId)
    \/ /\ uploadPc = "saveEmbedding"
       /\ violatesForeignKey(database.childChunks, uploadLocals.dbChildChunkId)

\* A create whose owner row is gone is rejected by the store, and
\* uploadDocument rejects with that error.
CreateViolatesForeignKey ==
    /\ ownerMissing
    /\ uploadLocals' =
        [uploadLocals EXCEPT
            !.error = uploadPc,
            !.thrown = [name |-> "PrismaClientKnownRequestError",
                        mentionsOpenAI |-> FALSE]]
    /\ uploadPc' = "failed"
    /\ uploadLog' = Append(uploadLog, logEntry(uploadPc, FALSE))
    /\ UNCHANGED <<uploadRequest, database, chunkStrategyTable>>
    /\ UNCHANGED outsideUpload

NextStore ==
    \/ NextUpload
    \/ UploadRequestReceived
    \/ CreateViolatesForeignKey
    \/ \E documentId \in 1..MaxRequests : DeleteDocument(documentId)

SpecStore == InitStore /\ [][NextStore]_vars

----------------------------------------------------------------------------
(* Vocabulary of the properties of the splitter.                           *)

Chunked == chunkPc = "chunked"

parentOverlapOf(strat) ==
    overlapChars(strat.parentChunkSize, strat.overlapPercent)

childOverlapOf(strat) ==
    overlapChars(strat.childChunkSize, strat.overlapPercent)

contentsOf(spans) == [i \in 1..Len(spans) |-> spans[i].content]

RECURSIVE concat(_)
concat(seqs) == IF seqs = <<>> THEN <<>> ELSE Head(seqs) \o concat(Tail(seqs))

onlySeparators(text, from, to) ==
    \A q \in (from + 1)..to : text[q] \in SeparatorChars

\* chunks[i..] are consecutive pieces of text from position pos on, in order
\* and without overlap, each taken after removing a prefix of it when
\* strip holds (the first chunk is never stripped); between and after the
\* pieces lies nothing (gaps = FALSE) or separator characters only.
RECURSIVE reassembles(_, _, _, _, _, _)
reassembles(text, pos, chunks, i, strip, gaps) ==
    IF i > Len(chunks)
    THEN pos = Len(text) \/ (gaps /\ onlySeparators(text, pos, Len(text)))
    ELSE \E k \in (IF strip /\ i > 1 THEN 0..Len(chunks[i]) ELSE {0}) :
         \E g \in (IF gaps THEN 0..(Len(text) - pos) ELSE {0}) :
            LET piece == slice(chunks[i], k, Len(chunks[i]))
            IN  /\ onlySeparators(text, pos, pos + g)
                /\ occursAt(text, piece, pos + g)
                /\ reassembles(text, pos + g + Len(piece), chunks, i + 1,
                               strip, gaps)

\* Some non-empty suffix of prev, at most overlap characters long, is a
\* prefix of cur.
beginsWithSuffixOf(cur, prev, overlap) ==
    \E k \in 1..Min({overlap, Len(prev)}) :
        occursAt(cur, sliceFromEnd(prev, k), 0)

overlapsChained(spans, overlap) ==
    overlap > 0 /\ Len(spans) >= 2 =>
        \A i \in 2..Len(spans) :
            beginsWithSuffixOf(spans[i].content, spans[i - 1].content, overlap)

----------------------------------------------------------------------------
(* Properties of chunkWithStrategy, checked under SpecChunk.               *)

\* C1 as stated: for overlap_percent < 100 the parents in parent_index
\* order, with the injected overlap removed, concatenate to the text
\* exactly; with overlap 0 their plain concatenation is the text.
C1_ParentsReproduceText ==
    Chunked /\ strategy.overlapPercent < 100 =>
        reassembles(content, 0, contentsOf(parentChunks), 1,
                    parentOverlapOf(strategy) > 0, FALSE)

\* C1 amended: for overlap_percent < 100 the parents in parent_index order,
\* with the injected overlap removed (nothing removed when the overlap is 0),
\* are consecutive non-overlapping pieces of the text in textual order, and
\* every character of the text outside the pieces is a separator character.
C1_ParentsReproduceTextUpToSeparators ==
    Chunked /\ strategy.overlapPercent < 100 =>
        reassembles(content, 0, contentsOf(parentChunks), 1,
                    parentOverlapOf(strategy) > 0, TRUE)

\* C1 witness: a split without overlap into several parents whose plain
\* concatenation lost a separator of the text.
C1_Witness ==
    /\ Chunked
    /\ strategy.overlapPercent = 0
    /\ Len(parentChunks) >= 2
    /\ concat(contentsOf(parentChunks)) # content
    /\ \E q \in 1..Len(content) : content[q] \notin SeparatorChars

\* C2: with overlap_percent = 0 every child lies within its parent:
\* parent.start <= child.start < child.end <= parent.end.
C2_ChildWithinParent ==
    Chunked /\ strategy.overlapPercent = 0 =>
        \A p \in 1..Len(parentChunks) :
            \A c \in 1..Len(parentChunks[p].children) :
                LET parent == parentChunks[p]
                    child == parent.children[c]
                IN  /\ parent.startPosition <= child.startPosition
                    /\ child.startPosition < child.endPosition
                    /\ child.endPosition <= parent.endPosition

\* C2 witness: without overlap, a parent that does not start the document
\* was split into several children.
C2_Witness ==
    /\ Chunked
    /\ strategy.overlapPercent = 0
    /\ \E p \in 1..Len(parentChunks) :
        /\ parentChunks[p].startPosition > 0
        /\ Len(parentChunks[p].children) >= 2

\* C3 as stated: for overlap_percent < 100 every parent satisfies
\* 0 <= start_position < end_position <= len(T).
C3_ParentPositionsInRange ==
    Chunked /\ strategy.overlapPercent < 100 =>
        \A p \in 1..Len(parentChunks) :
            /\ 0 <= parentChunks[p].startPosition
            /\ parentChunks[p].startPosition < parentChunks[p].endPosition
            /\ parentChunks[p].endPosition <= Len(content)

\* C4 as stated: the parents carry parent_index 0..n-1 and their start
\* positions are non-decreasing in parent_index.
C4_ParentIndexMatchesStartOrder ==
    Chunked =>
        /\ \A p \in 1..Len(parentChunks) : parentChunks[p].parentIndex = p - 1
        /\ \A p, q \in 1..Len(parentChunks) :
            p < q =>
                parentChunks[p].startPosition <= parentChunks[q].startPosition

\* C5: a text no longer than child_chunk_size (<= parent_chunk_size) gives
\* exactly one parent with exactly one child, both equal to the text and
\* located at [0, len(T)), for every overlap_percent.
C5_ShortTextOneParentOneChild ==
    Chunked /\ 0 < Len(content)
            /\ Len(content) <= strategy.childChunkSize
            /\ strategy.childChunkSize <= strategy.parentChunkSize =>
        parentChunks =
            << [content |-> content, parentIndex |-> 0,
                startPosition |-> 0, endPosition |-> Len(content),
                children |->
                    << [content |-> content, chunkIndex |-> 0,
                        startPosition |-> 0,
                        endPosition |-> Len(content)] >>] >>

\* C5 witness: a short text that starts with a separator was chunked under
\* a strategy with overlap.
C5_Witness ==
    /\ Chunked
    /\ Len(content) >= 2
    /\ Len(content) <= strategy.childChunkSize
    /\ strategy.childChunkSize <= strategy.parentChunkSize
    /\ content[1] \in SeparatorChars
    /\ strategy.overlapPercent > 0
    /\ Len(parentChunks) = 1

\* C8 as stated: when the overlap is positive and a pass yields two or more
\* spans, every non-first span begins with a non-empty suffix of its
\* predecessor that is at most `overlap` characters long (parent pass and
\* every child pass).
C8_NonFirstSpanBeginsWithOverlap ==
    Chunked =>
        /\ overlapsChained(parentChunks, parentOverlapOf(strategy))
        /\ \A p \in 1..Len(parentChunks) :
            overlapsChained(parentChunks[p].children, childOverlapOf(strategy))

----------------------------------------------------------------------------
(* Properties of characterLevelSplit, checked under SpecCharSplit.         *)

\* C6: the character-level fallback terminates for every chunk size and
\* overlap, and with a non-positive step (chunkSize - overlap <= 0) it
\* returns the whole text as a single chunk.
C6_CharacterLevelSplitTerminates ==
    /\ <>(splitPc = "done")
    /\ [](splitPc = "done" /\ splitSize - splitOverlap <= 0 =>
              splitResult = <<splitText>>)

\* C6 witness: the fallback returned for an overlap at least as large as the
\* chunk size, on a text longer than a chunk.
C6_Witness ==
    /\ splitPc = "done"
    /\ splitOverlap >= splitSize
    /\ Len(splitText) > splitSize
    /\ splitResult = <<splitText>>

----------------------------------------------------------------------------
(* Properties of the configured strategy list, checked under SpecConfig.   *)

\* C7 as stated: a strategy with overlap_percent >= 100 is never in the
\* configured strategy list and never produces spans.
C7_OverlapOf100Rejected ==
    /\ \A k \in 1..Len(strategies) : strategies[k].overlapPercent < 100
    /\ \A k \in 1..Len(allResults) :
        allResults[k].strategy.overlapPercent >= 100 =>
            allResults[k].parentChunks = <<>>

----------------------------------------------------------------------------
(* Properties of generateEmbeddings, checked under SpecEmbed.              *)

isBlank(text) == trim(text) = <<>>

\* Every response received so far carried one item for each input of its
\* request.
responsesComplete ==
    \A c \in 1..Len(responses) :
        {responses[c][k].index : k \in 1..Len(responses[c])}
            = 0..(Len(calls[c]) - 1)

\* C9: with responses that carry every item, in whatever order, the list
\* returned has the length of texts; entry i is the vector the endpoint
\* computed for the (trimmed) texts[i] if that is not blank and the
\* zero-length vector otherwise; and no blank text is ever sent.
C9_EmbeddingsKeepInputOrder ==
    /\ \A c \in 1..Len(calls) : \A j \in 1..Len(calls[c]) :
        ~isBlank(calls[c][j])
    /\ embedPc = "returned" /\ responsesComplete =>
        /\ Len(results) = Len(texts)
        /\ \A i \in 1..Len(texts) :
            results[i] = IF isBlank(texts[i])
                         THEN ArrayValue(<<>>)
                         ELSE ArrayValue(endpointEmbedding(trim(texts[i])))

\* C9 witness: a call returned after more than one batch, with a blank text
\* before a non-blank one and a response whose items were out of order.
C9_Witness ==
    /\ embedPc = "returned"
    /\ responsesComplete
    /\ Len(calls) >= 2
    /\ \E i, j \in 1..Len(texts) : i < j /\ isBlank(texts[i]) /\ ~isBlank(texts[j])
    /\ \E c \in 1..Len(responses) :
        Len(responses[c]) >= 2 /\ responses[c][1].index > responses[c][2].index
    /\ \E c \in 1..Len(calls) :
        Len(calls[c]) >= 2 /\ calls[c][1] # calls[c][2]

\* C10 as stated: a call that returns holds a non-empty vector for every
\* non-blank text (so a response with fewer vectors than inputs must not
\* lead to a return), and no request carries more inputs than the batch
\* size.
C10_NoSilentDrop ==
    /\ \A c \in 1..Len(calls) : Len(calls[c]) <= DEFAULT_EMBEDDING_BATCH_SIZE
    /\ embedPc = "returned" =>
        \A i \in 1..Len(texts) :
            ~isBlank(texts[i]) =>
                /\ i <= Len(results)
                /\ results[i].type = "array"
                /\ results[i].value # <<>>

----------------------------------------------------------------------------
(* Properties of ensureStrategy, checked under SpecEnsure.                 *)

\* C18 as stated: a call whose create collides with the unique constraint
\* does not fail (it finds the existing row instead), and two calls for the
\* same triple that have ended hold the same strategy id.
C18_CollisionUsesExistingRow ==
    \A c, d \in 1..Len(ensureCalls) :
        /\ ensureCalls[c].pc # "failed"
        /\ ensureCalls[c].pc = "done" /\ ensureCalls[d].pc = "done"
           /\ ensureCalls[c].strategy = ensureCalls[d].strategy
           => ensureCalls[c].result = ensureCalls[d].result

\* C19: the table never holds two rows of one triple; a call that returned
\* holds the id of the row of its triple, so two calls that returned for the
\* same triple hold the same id; and a call that found the row returned its
\* id and sent no create.
C19_OneRowPerTriple ==
    /\ \A j, k \in 1..Len(chunkStrategyTable) :
        sameTriple(chunkStrategyTable[j], chunkStrategyTable[k]) => j = k
    /\ \A c \in 1..Len(ensureCalls) :
        /\ ensureCalls[c].pc = "done" =>
            \E k \in 1..Len(chunkStrategyTable) :
                /\ chunkStrategyTable[k].id = ensureCalls[c].result
                /\ sameTriple(chunkStrategyTable[k], ensureCalls[c].strategy)
        /\ ensureCalls[c].existing # NoRow =>
            /\ ensureCalls[c].pc = "done"
            /\ ensureCalls[c].result = ensureCalls[c].existing.id
    /\ \A c, d \in 1..Len(ensureCalls) :
        /\ ensureCalls[c].pc = "done" /\ ensureCalls[d].pc = "done"
        /\ ensureCalls[c].strategy = ensureCalls[d].strategy
        => ensureCalls[c].result = ensureCalls[d].result

\* C19 witness: two calls for one triple returned, one after creating the
\* row and one after finding it, while the table also holds another triple.
C19_Witness ==
    /\ Len(chunkStrategyTable) = 2
    /\ \E c, d \in 1..Len(ensureCalls) :
        /\ c # d
        /\ ensureCalls[c].pc = "done" /\ ensureCalls[d].pc = "done"
        /\ ensureCalls[c].strategy = ensureCalls[d].strategy
        /\ ensureCalls[c].existing = NoRow
        /\ ensureCalls[d].existing # NoRow

----------------------------------------------------------------------------
(* Properties of the query transformation, checked under SpecQuery.        *)

Embedding == queryPc = "embedding"

chatFailed(callNames) ==
    \E k \in 1..Len(chatLog) :
        chatLog[k].call \in callNames /\ chatLog[k].failed

\* C15 as stated: when the classifier call, the expansion call or the HyDE
\* call failed, the query that is embedded is the original query.
C15_AnyChatFailureKeepsQuery ==
    Embedding /\ chatFailed({"analyze", "expand", "hyde"}) =>
        queryLocals.searchQuery = searchRequest.query

\* C15 amended: when the expansion call or the HyDE call failed, the query
\* that is embedded is the original query; when the classifier call failed,
\* the strategy is the one of the rule-based fallback and the query is
\* transformed by that strategy's call (none for direct); every request
\* gets to its embedding, whatever the chat calls came to.
C15_RewriteFailureKeepsQuery ==
    /\ queryPc \in {"start", "analyze", "expand", "hyde", "embedding"}
    /\ Embedding /\ chatFailed({"expand", "hyde"}) =>
        queryLocals.searchQuery = searchRequest.query
    /\ Embedding /\ chatFailed({"analyze"}) =>
        /\ queryLocals.queryStrategy = getDefaultStrategy(searchRequest.query)
        /\ queryLocals.queryStrategy = "direct" =>
            /\ Len(chatLog) = 1
            /\ queryLocals.searchQuery = searchRequest.query
        /\ queryLocals.queryStrategy = "hyde" =>
            Len(chatLog) = 2 /\ chatLog[2].call = "hyde"
        /\ queryLocals.queryStrategy = "expansion" =>
            Len(chatLog) = 2 /\ chatLog[2].call = "expand"

\* C15 witness: the classifier call failed, the rules chose hyde for a query
\* that is not blank, the HyDE call failed too, and the original query is
\* embedded.
C15_Witness ==
    /\ Embedding
    /\ Len(chatLog) = 2
    /\ chatLog[1].failed /\ chatLog[2].failed /\ chatLog[2].call = "hyde"
    /\ trim(searchRequest.query) # <<>>
    /\ queryLocals.searchQuery = searchRequest.query

\* The fallback rules in the words of the claim, over the trimmed query.
ruleQuestion == startsWithQuestionWord(trim(searchRequest.query))
ruleShort ==
    \/ Len(trim(searchRequest.query)) < 10
    \/ tokenCount(trim(searchRequest.query)) < 3
ruleCode == looksLikeCode(trim(searchRequest.query))

decidedByRules ==
    /\ queryLocals.analysis = "hyde" <=> ruleQuestion
    /\ queryLocals.analysis = "direct" <=>
        ~ruleQuestion /\ ~ruleShort /\ ruleCode
    /\ queryLocals.analysis = "expansion" <=>
        ~ruleQuestion /\ (ruleShort \/ ~ruleCode)

analyzed == Len(chatLog) >= 1 /\ chatLog[1].call = "analyze"

\* C16 as stated: when the answer of the classifier holds no parseable JSON
\* object with one of the strategies direct, expansion, hyde, the strategy
\* is decided by the rules: question word -> hyde; else short -> expansion;
\* else code-like -> direct; else expansion.
C16_MalformedAnswerDecidedByRules ==
    /\ analyzed
    /\ \/ chatLog[1].answer \in {"noObject", "badJson"}
       \/ /\ chatLog[1].answer = "object"
          /\ chatLog[1].strategy \notin {"direct", "expansion", "hyde"}
    => decidedByRules

\* C16 amended: when the classifier call failed, or its answer holds no
\* "{...}" text, or the text matched is not valid JSON, the strategy is
\* decided by the rules in that priority; when the answer parses to an
\* object whose strategy is none of the three, the strategy is expansion.
C16_UnparsedAnswerDecidedByRules ==
    /\ analyzed /\ chatLog[1].answer \in {"error", "noObject", "badJson"}
        => decidedByRules
    /\ analyzed /\ chatLog[1].answer = "object"
       /\ chatLog[1].strategy \notin {"direct", "expansion", "hyde"}
        => queryLocals.analysis = "expansion"

\* C16 witness: the answer was not valid JSON and the rules chose direct for
\* a query that is neither a question nor short and holds a code-like token.
C16_Witness ==
    /\ analyzed
    /\ chatLog[1].answer = "badJson"
    /\ ~ruleQuestion /\ ~ruleShort /\ ruleCode
    /\ queryLocals.analysis = "direct"

\* C17 as stated: with use_smart_query = false no classifier call is made,
\* query_strategy is hyde exactly when the caller set use_hyde, expansion
\* exactly when the caller set use_query_expansion and not use_hyde, and
\* when the caller set neither the query is embedded unchanged, without a
\* chat call, with query_strategy direct.
C17_ManualModeFollowsCallerFlags ==
    searchRequest.use_smart_query = "false" =>
        /\ \A k \in 1..Len(chatLog) : chatLog[k].call # "analyze"
        /\ Embedding =>
            /\ queryLocals.queryStrategy = "hyde" <=>
                searchRequest.use_hyde = "true"
            /\ queryLocals.queryStrategy = "expansion" <=>
                /\ searchRequest.use_query_expansion = "true"
                /\ searchRequest.use_hyde # "true"
            /\ /\ searchRequest.use_hyde # "true"
               /\ searchRequest.use_query_expansion # "true"
               => /\ queryLocals.queryStrategy = "direct"
                  /\ queryLocals.searchQuery = searchRequest.query
                  /\ chatLog = <<>>

----------------------------------------------------------------------------
(* Properties of retrieval and re-ranking, checked under SpecRetrieve.     *)

\* The candidates handed to llmRerank and the rows of the response.
candidates == retrieveLocals.results
returnedRows == retrieveLocals.response.results

reranked == retrievePc = "returned" /\ retrieveLocals.answer.kind # "none"

\* The score the claim gives candidate idx: the one of the answer, 5 if the
\* answer has none for it.
scoreInAnswer(idx) ==
    LET scores == retrieveLocals.answer.scores
    IN  IF \A k \in 1..Len(scores) : scores[k].id # idx
        THEN 5
        ELSE scores[CHOOSE k \in 1..Len(scores) :
                        /\ scores[k].id = idx
                        /\ \A j \in 1..(k - 1) : scores[j].id # idx].score

\* 0.3 * similarity + 0.7 * (score / 10) of candidate k, in thousandths.
combinedOf(k) == (candidates[k].similarity * 3 + scoreInAnswer(k - 1) * 700) \div 10

\* C12: after a re-ranking whose scores parsed, the response holds top_k
\* rows; each is a candidate with its similarity replaced by combined; they
\* are in descending order of combined, and no candidate left out has a
\* higher combined value than a returned one.
C12_RerankFusesAndKeepsTopK ==
    reranked /\ retrieveLocals.answer.kind = "scores" =>
        /\ Len(returnedRows) = retrieveRequest.top_k
        /\ \A r \in 1..Len(returnedRows) :
            /\ returnedRows[r].child \in 1..Len(candidates)
            /\ returnedRows[r].similarity = combinedOf(returnedRows[r].child)
        /\ \A r, s \in 1..Len(returnedRows) :
            r < s => /\ returnedRows[r].similarity >= returnedRows[s].similarity
                     /\ returnedRows[r].child # returnedRows[s].child
        /\ \A k \in 1..Len(candidates) :
            (\A r \in 1..Len(returnedRows) : returnedRows[r].child # k) =>
                \A r \in 1..Len(returnedRows) :
                    combinedOf(k) <= returnedRows[r].similarity

\* C12 witness: three scores parsed, one candidate had none, and the
\* candidate that was last by vector similarity is returned first.
C12_Witness ==
    /\ reranked
    /\ retrieveLocals.answer.kind = "scores"
    /\ Len(retrieveLocals.answer.scores) = 3
    /\ Len(candidates) = 4
    /\ \E k \in 1..Len(candidates) : scoreInAnswer(k - 1) = 5
    /\ returnedRows[1].child = 4
    /\ candidates[1].similarity > candidates[4].similarity

\* C13: when the chat call of the re-ranking failed or its answer did not
\* parse, the search returns the first top_k candidates in vector order
\* with their similarities as retrieved, and total_results is top_k.
C13_RerankFailureKeepsVectorOrder ==
    /\ retrievePc = "reranking" => Len(candidates) > retrieveRequest.top_k
    /\ reranked /\ retrieveLocals.answer.kind # "scores" =>
        /\ retrieveLocals.response.total_results = retrieveRequest.top_k
        /\ Len(returnedRows) = retrieveRequest.top_k
        /\ \A r \in 1..Len(returnedRows) : returnedRows[r] = storedRows[r]

\* C13 witness: the chat call failed with four candidates of different
\* similarity for top_k = 2.
C13_Witness ==
    /\ reranked
    /\ retrieveLocals.answer.kind = "error"
    /\ retrieveRequest.top_k = 2
    /\ Len(candidates) = 4
    /\ candidates[1].similarity > candidates[4].similarity

\* C14: the store is asked for 3 * top_k rows with re-ranking and for top_k
\* without; a response holds at most top_k rows and total_results is their
\* number; re-ranking is called with the original query.
C14_RetrieveLimitAndTopK ==
    /\ retrievePc \in {"querying", "reranking", "returned"} =>
        retrieveLocals.retrieveCount =
            IF retrieveRequest.use_rerank \in {"undefined", "true"}
            THEN 3 * retrieveRequest.top_k ELSE retrieveRequest.top_k
    /\ retrievePc \in {"reranking", "returned"} =>
        Len(candidates) <= retrieveLocals.retrieveCount
    /\ retrievePc = "returned" =>
        /\ Len(returnedRows) <= retrieveRequest.top_k
        /\ retrieveLocals.response.total_results = Len(returnedRows)
    /\ retrieveLocals.rerankQuery \in {<<>>, retrieveRequest.query}
    /\ retrievePc = "reranking" =>
        retrieveLocals.rerankQuery = retrieveRequest.query

\* C14 witness: a request whose effective query differs from the original
\* one retrieved more than top_k rows and returned after a re-ranking.
C14_Witness ==
    /\ reranked
    /\ retrieveRequest.searchQuery # retrieveRequest.query
    /\ retrieveLocals.embedded = retrieveRequest.searchQuery
    /\ retrieveLocals.rerankQuery = retrieveRequest.query
    /\ Len(candidates) > retrieveRequest.top_k
    /\ Len(storedRows) > Len(candidates)

----------------------------------------------------------------------------
(* Properties of uploadDocument.                                          *)

\* The row of child_chunks with the given id.
childRow(id) == database.childChunks[id]

\* C11: a child whose content is blank or whitespace-only gets no
\* chunk_embeddings row and is not counted in embeddings_created: every row
\* of chunk_embeddings belongs to a child with non-blank content, and
\* embeddings_created counts exactly the children with non-blank content
\* whose row has been handled.
C11_BlankChildHasNoEmbeddingRow ==
    /\ \A e \in 1..Len(database.chunkEmbeddings) :
        ~isBlank(childRow(database.chunkEmbeddings[e].chunkId).content)
    /\ uploadPc = "returned" =>
        uploadLocals.totalEmbeddingsCreated =
            Cardinality({c \in 1..Len(database.childChunks) :
                            ~isBlank(childRow(c).content)})

\* The indexes of the calls of the history that succeeded and wrote a row.
okWrites == {i \in 1..Len(uploadLog) : uploadLog[i].ok /\ uploadLog[i].kind = "write"}

\* The number of rows the request has written.
rowsWritten ==
    Len(database.documents) + Len(database.parentChunks)
        + Len(database.childChunks) + Len(database.chunkEmbeddings)
        + Cardinality({i \in okWrites : uploadLog[i].op = "createStrategy"})

\* C20: the first failing step of uploadDocument aborts the ingestion: a
\* failed call is the last call of the request, the request is rejected with
\* the error of that call, and the rows written are exactly those of the
\* calls that succeeded before it.
C20_FirstFailureAborts ==
    /\ \A i \in 1..Len(uploadLog) :
        ~uploadLog[i].ok =>
            /\ i = Len(uploadLog)
            /\ uploadPc = "failed"
            /\ uploadLocals.error = uploadLog[i].op
    /\ uploadPc = "failed" =>
        /\ uploadLog # <<>>
        /\ ~uploadLog[Len(uploadLog)].ok
    /\ (uploadLog # <<>> \/ uploadPc # "idle") =>
        rowsWritten = Cardinality(okWrites)

\* C20 witness: the request failed while the first strategy was in progress,
\* after rows had been written, with parents of the second strategy pending.
C20_Witness ==
    /\ uploadPc = "failed"
    /\ uploadLocals.strategyIndex = 1
    /\ Len(database.parentChunks) > 0
    /\ Len(uploadLocals.strategyResults) = 2
    /\ Len(uploadLocals.strategyResults[2].parentChunks) > 0

----------------------------------------------------------------------------
(* Positions, emptiness and sizes of the spans, checked under SpecChunk.   *)

\* The span's content is the substring of the document at its positions.
locatesContent(span) ==
    /\ 0 <= span.startPosition
    /\ span.endPosition <= Len(content)
    /\ slice(content, span.startPosition, span.endPosition) = span.content

C29_NonEmptyTextGivesNonEmptySpans ==
    Chunked /\ content # <<>> =>
        /\ Len(parentChunks) >= 1
        /\ \A p \in 1..Len(parentChunks) :
            /\ parentChunks[p].content # <<>>
            /\ Len(parentChunks[p].children) >= 1
            /\ \A c \in 1..Len(parentChunks[p].children) :
                parentChunks[p].children[c].content # <<>>

\* The longest separator of RECURSIVE_SEPARATORS.
LONGEST_SEPARATOR == Max({Len(RECURSIVE_SEPARATORS[k]) : k \in 1..Len(RECURSIVE_SEPARATORS)})

\* The bound on the length of a span of a pass with the given size and
\* overlap.
spanLengthBound(size, overlap) ==
    IF overlap = 0 THEN size ELSE size + overlap + LONGEST_SEPARATOR

\* C30: every span of a split pass with target size S and overlap o < S has
\* at most S characters when o = 0 and at most S + o + 2 when o > 0, for the
\* parent pass and for the child pass of every parent.
C30_SpanLengthBounded ==
    Chunked =>
        /\ parentOverlapOf(strategy) < strategy.parentChunkSize =>
            \A p \in 1..Len(parentChunks) :
                Len(parentChunks[p].content)
                    <= spanLengthBound(strategy.parentChunkSize,
                                       parentOverlapOf(strategy))
        /\ childOverlapOf(strategy) < strategy.childChunkSize =>
            \A p \in 1..Len(parentChunks) :
                \A c \in 1..Len(parentChunks[p].children) :
                    Len(parentChunks[p].children[c].content)
                        <= spanLengthBound(strategy.childChunkSize,
                                           childOverlapOf(strategy))

----------------------------------------------------------------------------
(* Properties of the upload request at the edge, checked under SpecUpload. *)

\* The calls of the history that went to the chat or the embedding endpoint.
remoteCalls == {i \in 1..Len(uploadLog) : uploadLog[i].kind = "remote"}

\* C22: an ingest request whose content is empty succeeds: once it has been
\* handled, the response is a success that reports no parent, no child, no
\* embedding and no strategy, and no summary or embedding call was made.
C22_EmptyContentSucceeds ==
    uploadRequest.content = <<>> /\ uploadPc \in {"rejected", "returned"} =>
        /\ uploadResponse.success
        /\ uploadLocals.totalParentChunksCreated = 0
        /\ uploadLocals.totalChildChunksCreated = 0
        /\ uploadLocals.totalEmbeddingsCreated = 0
        /\ uploadLocals.usedStrategies = <<>>
        /\ remoteCalls = {}

\* C24: a failure of the chat or the embedding endpoint during ingest, be it
\* a non-2xx answer or a transport error, is answered with status 502 and
\* success false.
C24_RemoteFailureAnswered502 ==
    uploadPc = "failed" /\ uploadLocals.thrown \in RemoteErrors =>
        /\ uploadResponse.status = HTTP_BAD_GATEWAY
        /\ ~uploadResponse.success

----------------------------------------------------------------------------
(* Order of the writes of uploadDocument, checked under SpecUpload.        *)

parentRow(id) == database.parentChunks[id]

\* The child rows of a parent row.
childRowsOf(parentId) ==
    {k \in 1..Len(database.childChunks) : childRow(k).parentChunkId = parentId}

\* The place of child cIdx of parent pIdx in the flat list of the children
\* of all parents (1-based).
RECURSIVE flatIndexOf(_, _, _)
flatIndexOf(parents, pIdx, cIdx) ==
    IF pIdx = 1 THEN cIdx
    ELSE Len(parents[pIdx - 1].children) + flatIndexOf(parents, pIdx - 1, cIdx)

\* Every answer of the embedding endpoint so far carried all its items.
completeResponses == \A i \in 1..Len(uploadLog) : uploadLog[i].complete

\* The vector the endpoint computes from a child's content with the title,
\* the type and the summary of its parent.
contextualEmbeddingOf(child) ==
    endpointEmbedding(trim(buildEnrichedText(child.content,
        [title |-> uploadRequest.title,
         parentSummary |-> parentRow(child.parentChunkId).summary,
         documentType |-> DocumentTypeText])))

\* The rows at every moment: a child's parent row exists, children follow
\* each other in chunk_index order 0, 1, 2, ... under the latest parent,
\* parents in parent_index order, an embedding's child row exists, and with
\* complete answers the embedding of a child is the vector computed from its
\* content and its parent's summary.
rowsInDocumentOrder ==
    /\ \A k \in 1..Len(database.parentChunks) :
        parentRow(k).parentIndex =
            IF k > 1 /\ parentRow(k - 1).strategyId = parentRow(k).strategyId
            THEN parentRow(k - 1).parentIndex + 1 ELSE 0
    /\ \A k \in 1..Len(database.childChunks) :
        /\ childRow(k).parentChunkId \in 1..Len(database.parentChunks)
        /\ IF k > 1 /\ childRow(k - 1).parentChunkId = childRow(k).parentChunkId
           THEN childRow(k).chunkIndex = childRow(k - 1).chunkIndex + 1
           ELSE /\ childRow(k).chunkIndex = 0
                /\ k > 1 =>
                    childRow(k - 1).parentChunkId < childRow(k).parentChunkId
    /\ \A e \in 1..Len(database.chunkEmbeddings) :
        /\ database.chunkEmbeddings[e].chunkId \in 1..Len(database.childChunks)
        /\ e > 1 => database.chunkEmbeddings[e - 1].chunkId
                        < database.chunkEmbeddings[e].chunkId
        /\ completeResponses =>
            database.chunkEmbeddings[e].embedding =
                contextualEmbeddingOf(childRow(database.chunkEmbeddings[e].chunkId))

\* The writes one by one: a child row is written under the parent row
\* written last, an embedding row for the child row written last and with
\* the vector at the child's place in the flat list, and a parent row only
\* when the previous parent of the strategy has all its child rows.
writesInDocumentOrder ==
    /\ Len(database'.childChunks) > Len(database.childChunks) =>
        /\ database'.parentChunks = database.parentChunks
        /\ database'.childChunks[Len(database'.childChunks)].parentChunkId
            = Len(database.parentChunks)
    /\ Len(database'.chunkEmbeddings) > Len(database.chunkEmbeddings) =>
        /\ database'.childChunks = database.childChunks
        /\ database'.chunkEmbeddings[Len(database'.chunkEmbeddings)] =
            [chunkId |-> Len(database.childChunks),
             embeddingType |-> EMBEDDING_TYPE_CONTENT,
             embedding |->
                uploadLocals.allEmbeddings[
                    flatIndexOf(currentParents(uploadLocals),
                                uploadLocals.pIdx, uploadLocals.cIdx)].value]
    /\ Len(database'.parentChunks) > Len(database.parentChunks) =>
        LET new == database'.parentChunks[Len(database'.parentChunks)]
        IN  new.parentIndex > 0 =>
                Cardinality(childRowsOf(Len(database.parentChunks))) =
                    Len(currentParents(uploadLocals)[new.parentIndex].children)

----------------------------------------------------------------------------
(* Phases of a strategy in uploadDocument, checked under SpecUpload.       *)

\* The calls made for the strategy in progress: those after the last
\* findUnique of ensureStrategy.
strategyCalls ==
    LET finds == {i \in 1..Len(uploadLog) : uploadLog[i].op = "findStrategy"}
    IN  IF finds = {} THEN {} ELSE Max(finds)..Len(uploadLog)

\* Calls i < j belong to the same strategy.
sameStrategyCalls(i, j) ==
    \A k \in (i + 1)..j : uploadLog[k].op # "findStrategy"

rowWritingOps == {"createParent", "createChild", "saveEmbedding"}

\* The parent rows of the strategy with the given row id.
parentRowsOfStrategy(strategyId) ==
    {k \in 1..Len(database.parentChunks) : parentRow(k).strategyId = strategyId}

\* The strategies before the one in progress have all their parent rows,
\* each with all its child rows.
earlierStrategiesComplete ==
    \A s \in 1..(uploadLocals.strategyIndex - 1) :
        LET result == uploadLocals.strategyResults[s]
            rows == parentRowsOfStrategy(
                        findUnique(chunkStrategyTable, result.strategy).id)
        IN  /\ Cardinality(rows) = Len(result.parentChunks)
            /\ \A k \in rows :
                Cardinality(childRowsOf(k)) =
                    Len(result.parentChunks[parentRow(k).parentIndex + 1].children)

\* C28: for each strategy every summary call is finished before the
\* embedding call is issued and all embeddings are received before the
\* first parent row is inserted; so when a summary or embedding call fails,
\* the strategy has no parent, child or embedding row, while the document
\* row and the rows of the strategies before it remain.
C28_SummariesThenEmbeddingsThenRows ==
    /\ uploadPc \in {"embedBatch"} \cup rowWritingOps =>
        /\ Len(uploadLocals.parentSummaries) = Len(currentParents(uploadLocals))
        /\ Cardinality({i \in strategyCalls :
                            uploadLog[i].op = "summary" /\ uploadLog[i].ok})
            = Cardinality({q \in 1..Len(currentParents(uploadLocals)) :
                            ~isBlank(currentParents(uploadLocals)[q].content)})
    /\ uploadPc \in rowWritingOps =>
        uploadLocals.batchStart >= Len(uploadLocals.validTexts)
    /\ \A i, j \in 1..Len(uploadLog) :
        i < j /\ sameStrategyCalls(i, j) =>
            /\ uploadLog[i].op \in rowWritingOps =>
                uploadLog[j].op \notin {"summary", "embedBatch"}
            /\ uploadLog[i].op = "embedBatch" => uploadLog[j].op # "summary"
    /\ uploadPc = "failed" /\ uploadLocals.error \in {"summary", "embedBatch"} =>
        /\ parentRowsOfStrategy(uploadLocals.dbStrategyId) = {}
        /\ \A k \in 1..Len(database.childChunks) :
            parentRow(childRow(k).parentChunkId).strategyId
                # uploadLocals.dbStrategyId
        /\ Len(database.documents) = 1
        /\ earlierStrategiesComplete

\* C28 witness: the embedding call of the second strategy failed after the
\* rows of the first strategy had been written.
C28_Witness ==
    /\ uploadPc = "failed"
    /\ uploadLocals.error = "embedBatch"
    /\ uploadLocals.strategyIndex = 2
    /\ Len(database.parentChunks) > 0
    /\ Len(database.chunkEmbeddings) > 0

----------------------------------------------------------------------------
(* Properties of generateSummaries, checked under SpecSummaries.           *)

inFlight ==
    {k \in 1..Len(summaryRequests) : summaryRequests[k].status = "inFlight"}

\* The last place of the batch that holds place k.
batchEndOf(k) ==
    (((k - 1) \div DEFAULT_SUMMARY_CONCURRENCY) + 1) * DEFAULT_SUMMARY_CONCURRENCY

\* C25: generateSummaries never has more than DEFAULT_SUMMARY_CONCURRENCY
\* requests in flight, returns the summaries in the order of its inputs,
\* and when a request fails the call fails with the error of the first
\* request that failed and no request of a later batch is started.
C25_BoundedFanOutInOrder ==
    summaryCall # <<>> =>
        /\ Cardinality(inFlight) <= DEFAULT_SUMMARY_CONCURRENCY
        /\ summaryCall.pc = "returned" =>
            /\ Len(summaryCall.results) = Len(summaryContents)
            /\ \A k \in 1..Len(summaryContents) :
                /\ summaryRequests[k].status = "resolved"
                /\ summaryCall.results[k] = summaryRequests[k].summary
                /\ isBlank(summaryContents[k]) => summaryCall.results[k] = <<>>
                /\ ~isBlank(summaryContents[k]) => summaryCall.results[k] # <<>>
        /\ summaryCall.rejections # <<>> =>
            /\ summaryCall.pc = "failed"
            /\ summaryCall.error = summaryCall.rejections[1]
            /\ \A k \in 1..Len(summaryContents) :
                k > batchEndOf(summaryCall.error) =>
                    summaryRequests[k] = NotStarted

\* C25 witness: a request of the second batch failed while another one of
\* that batch was in flight, the first batch is in results, and a content
\* that needs a request waits in a later batch.
C25_Witness ==
    /\ summaryCall # <<>>
    /\ summaryCall.pc = "failed"
    /\ summaryCall.error > DEFAULT_SUMMARY_CONCURRENCY
    /\ Len(summaryCall.results) = DEFAULT_SUMMARY_CONCURRENCY
    /\ inFlight # {}
    /\ \E k \in 1..Len(summaryContents) :
        /\ k > batchEndOf(summaryCall.error)
        /\ ~isBlank(summaryContents[k])

----------------------------------------------------------------------------
(* Properties of the store, checked under SpecStore.                       *)

\* The rows of a table as a set of places.
rowsOf(table) == 1..Len(table)

\* The document a parent row, a child row or an embedding row belongs to,
\* through its owners; 0 when an owner row is missing.
documentOfParent(parentId) ==
    LET owners == {k \in rowsOf(database.parentChunks) :
                    database.parentChunks[k].id = parentId}
    IN  IF owners = {} THEN 0
        ELSE database.parentChunks[CHOOSE k \in owners : TRUE].documentId

documentOfChild(childId) ==
    LET owners == {k \in rowsOf(database.childChunks) :
                    database.childChunks[k].id = childId}
    IN  IF owners = {} THEN 0
        ELSE documentOfParent(
                database.childChunks[CHOOSE k \in owners : TRUE].parentChunkId)

\* C21: once deleteDocument(d) has succeeded, the document row d is gone and
\* no parent, child or embedding row refers to d, directly or through its
\* owner, in any later state, also when the uploadDocument that created d
\* goes on writing rows.
C21_DeletedDocumentLeavesNoRows ==
    /\ rowIds(database.documents) \cap deletedDocuments = {}
    /\ \A k \in rowsOf(database.parentChunks) :
        database.parentChunks[k].documentId \in rowIds(database.documents)
    /\ \A k \in rowsOf(database.childChunks) :
        documentOfChild(database.childChunks[k].id)
            \in rowIds(database.documents)
    /\ \A k \in rowsOf(database.chunkEmbeddings) :
        documentOfChild(database.chunkEmbeddings[k].chunkId)
            \in rowIds(database.documents)

\* C21 witness: a document with rows was deleted while its uploadDocument
\* was writing, and the next create of that upload was rejected.
C21_Witness ==
    /\ uploadPc = "failed"
    /\ uploadLocals.documentId \in deletedDocuments
    /\ uploadLocals.error \in rowWritingOps
    /\ uploadLocals.totalChildChunksCreated > 0
    /\ \E i \in 1..Len(uploadLog) :
        /\ ~uploadLog[i].ok
        /\ uploadLog[i].op = "createParent"

\* C23: no two rows of chunk_embeddings share the same child chunk and
\* embedding type (the model is the one configured model): over any
\* sequence of uploads and deletes a child row has at most one content
\* embedding.
C23_OneEmbeddingPerChild ==
    \A i, j \in rowsOf(database.chunkEmbeddings) :
        /\ database.chunkEmbeddings[i].chunkId = database.chunkEmbeddings[j].chunkId
        /\ database.chunkEmbeddings[i].embeddingType
            = database.chunkEmbeddings[j].embeddingType
        => i = j

\* C23 witness: after a delete, the second upload has stored embeddings
\* beside or after those of the first.
C23_Witness ==
    /\ requestsServed = 2
    /\ deletedDocuments # {}
    /\ uploadPc = "returned"
    /\ Len(database.chunkEmbeddings) >= 2
    /\ database.created.childChunks >= 4

====
